---- MODULE Spec2Model ----
(***************************************************************************)
(* A model of the WikEdDiff engine (src/WikEdDiff/diff.py).                *)
(*                                                                         *)
(* A text is a sequence of one-character strings.  Arena indices, block,   *)
(* group and section indices and token numbers are the 0-based values of   *)
(* the Python code; element i of a Python list is element i + 1 of the     *)
(* sequence that models it (operator At).  Python's None is the value None.*)
(***************************************************************************)
EXTENDS Integers, Sequences, FiniteSets

\* Python's None, for every optional index, number and group field.
None == -2

\* Element i (0-based) of a Python list.
At(list, i) == list[i + 1]

\* list[i] = v for a 0-based index i.
SetAt(list, i, v) == [list EXCEPT ![i + 1] = v]

Min(a, b) == IF a < b THEN a ELSE b

\* The first index k in lo..hi with P[k], or hi + 1.
RECURSIVE FirstFrom(_, _, _)
FirstFrom(P, lo, hi) ==
    IF lo > hi THEN hi + 1
    ELSE IF P[lo] THEN lo
    ELSE FirstFrom(P, lo + 1, hi)

RECURSIVE Concat(_)
Concat(parts) ==
    IF parts = <<>> THEN <<>> ELSE Head(parts) \o Concat(Tail(parts))

(***************************************************************************)
(* Character classes of config.py, restricted to the characters the model  *)
(* draws its texts from.                                                   *)
(***************************************************************************)
\* regExpLetters: a-zA-Z0-9 and the Unicode letters.
Letters == {"a", "b", "c", "t"}

\* regExpBlanks: breaking white space without \n, \r and \f.
Blanks == {" "}

\* regExpNewLinesAll and regExpNewParagraph.
NewLines == {"\n"}

\* '.', '!', '?', ':', ';' and the full stops of regExpFullStops.
Stops == {"."}

\* The apostrophes ['’] that continue a word.
Apostrophes == {"'"}

\* Every character a text of the model may hold.  None of them opens a chunk
\* ('[', '{', '<', '/'), a markup word ('=', '&', '|') or is '_'.
Alphabet == Letters \cup Blanks \cup NewLines \cup Stops \cup Apostrophes \cup {"-"}

(***************************************************************************)
(* The regular expressions of config.regExp, as the length of the match    *)
(* that starts at position p (1-based) of text t, 0 when there is none.    *)
(***************************************************************************)
\* Length of the maximal run of characters of class S starting at p.
RECURSIVE RunLen(_, _, _)
RunLen(t, p, S) ==
    IF p > Len(t) \/ t[p] \notin S THEN 0 ELSE 1 + RunLen(t, p + 1, S)

\* split.paragraph: (\r\n|\n|\r){2,}|[\f ]
MatchParagraph(t, p) ==
    LET k == RunLen(t, p, NewLines) IN IF k >= 2 THEN k ELSE 0

\* split.line: \r\n|\n|\r|[\n\r\u0085 ]
MatchLine(t, p) == IF t[p] \in NewLines THEN 1 ELSE 0

\* split.sentence: [^blanks].*?[.!?:;]+(?=[blanks]|$) with re.MULTILINE.
\* The lazy .*? takes the first run of stops, free of line breaks before it,
\* that a blank, a line break or the end of the text follows.
RECURSIVE SentenceEnd(_, _)
SentenceEnd(t, q) ==
    IF q > Len(t) \/ t[q] \in NewLines THEN 0
    ELSE IF t[q] \in Stops
         THEN LET r == q + RunLen(t, q, Stops) IN
              IF r > Len(t) \/ t[r] \in Blanks \cup NewLines
              THEN r - 1
              ELSE SentenceEnd(t, r)
         ELSE SentenceEnd(t, q + 1)

MatchSentence(t, p) ==
    IF t[p] \in Blanks THEN 0
    ELSE LET e == SentenceEnd(t, p + 1) IN IF e = 0 THEN 0 ELSE e - p + 1

\* split.chunk: wiki links, templates, external links, html tags and urls.
\* Every alternative needs one of '[', '{', '<', '/', which no text holds.
MatchChunk(t, p) ==
    IF t[p] \in {"[", "{", "<", "/"} THEN 1 ELSE 0

\* The (['’][_letters]*)* that ends a word: the length of the groups of an
\* apostrophe and letters from position q on.
RECURSIVE QuoteGroups(_, _)
QuoteGroups(t, q) ==
    IF q <= Len(t) /\ t[q] \in Apostrophes
    THEN QuoteGroups(t, q + 1 + RunLen(t, q + 1, Letters))
         + 1 + RunLen(t, q + 1, Letters)
    ELSE 0

\* countWords: a run of letters with the groups of apostrophe and letters
\* that follow it is one word.
MatchCountWords(t, p) ==
    IF RunLen(t, p, Letters) = 0 THEN 0
    ELSE RunLen(t, p, Letters) + QuoteGroups(t, p + RunLen(t, p, Letters))

\* split.word: a word as in countWords; two or three apostrophes; any other
\* character but a line break (no re.DOTALL) is a word of its own.
MatchWord(t, p) ==
    IF t[p] \in Letters THEN MatchCountWords(t, p)
    ELSE IF t[p] \in NewLines THEN 0
    ELSE IF t[p] \in Apostrophes
         THEN (IF RunLen(t, p, Apostrophes) > 3 THEN 3
               ELSE RunLen(t, p, Apostrophes))
    ELSE 1

\* split.character: . with re.DOTALL.
MatchCharacter(t, p) == 1

\* clipLine: [\n\r\u0085\u2028\f\u2029]+
MatchClipLine(t, p) == RunLen(t, p, NewLines)

\* clipHeading: ( ^|\n)(==+.+?==+|\{\||\|\}).*?(?=\n|$).  Every alternative
\* needs one of '=', '{', '|', which no text holds.
MatchClipHeading(t, p) ==
    IF t[p] \in NewLines /\ p < Len(t) /\ t[p + 1] \in {"=", "{", "|"}
    THEN 1 ELSE 0

\* clipParagraph: ( (\r\n|\n|\r){2,}|[\f\u2029])+, a run of units made of one
\* space and two or more line breaks.
RECURSIVE MatchClipParagraph(_, _)
MatchClipParagraph(t, p) ==
    IF p < Len(t) /\ t[p] = " " /\ RunLen(t, p + 1, NewLines) >= 2
    THEN 1 + RunLen(t, p + 1, NewLines)
         + MatchClipParagraph(t, p + 1 + RunLen(t, p + 1, NewLines))
    ELSE 0

\* clipBlank: [blanks]+
MatchClipBlank(t, p) == RunLen(t, p, Blanks)

Levels == <<"paragraph", "line", "sentence", "chunk", "word", "character">>

Match(level, t, p) ==
    CASE level = "paragraph" -> MatchParagraph(t, p)
      [] level = "line"      -> MatchLine(t, p)
      [] level = "sentence"  -> MatchSentence(t, p)
      [] level = "chunk"     -> MatchChunk(t, p)
      [] level = "word"      -> MatchWord(t, p)
      [] level = "character" -> MatchCharacter(t, p)
      [] level = "countWords" -> MatchCountWords(t, p)
      [] level = "clipLine" -> MatchClipLine(t, p)
      [] level = "clipHeading" -> MatchClipHeading(t, p)
      [] level = "clipParagraph" -> MatchClipParagraph(t, p)
      [] level = "clipBlank" -> MatchClipBlank(t, p)

\* regExp.finditer(text): the matches, left to right, as <<start, length>>
\* with a 1-based start.
RECURSIVE FindIter(_, _, _)
FindIter(level, t, p) ==
    IF p > Len(t) THEN <<>>
    ELSE LET k == Match(level, t, p) IN
         IF k = 0 THEN FindIter(level, t, p + 1)
         ELSE <<(<<p, k>>)>> \o FindIter(level, t, p + k)

\* The split list of splitText: the matches and the text between them.
RECURSIVE SplitFrom(_, _, _, _)
SplitFrom(level, t, p, lastIndex) ==
    IF p > Len(t)
    THEN IF lastIndex < p THEN <<SubSeq(t, lastIndex, Len(t))>> ELSE <<>>
    ELSE LET k == Match(level, t, p) IN
         IF k = 0 THEN SplitFrom(level, t, p + 1, lastIndex)
         ELSE (IF p > lastIndex THEN <<SubSeq(t, lastIndex, p - 1)>> ELSE <<>>)
              \o <<SubSeq(t, p, p + k - 1)>>
              \o SplitFrom(level, t, p + k, p + k)

Split(level, t) == SplitFrom(level, t, 1, 1)

\* The texts of the matches m of finditer in t.
Groups(t, m) == [k \in 1..Len(m) |-> SubSeq(t, m[k][1], m[k][1] + m[k][2] - 1)]

\* The words of a text, as countWords.finditer and countChunks.finditer
\* yield them (countChunks never matches).
WordsOf(t) == Groups(t, FindIter("countWords", t, 1))

\* wordCount: len(countWords.findall(text)).
wordCount(t) == Len(FindIter("countWords", t, 1))

\* blankOnlyToken.search: the token holds a character that is no blank and
\* no line break.
blankOnlyToken(t) == \E k \in 1..Len(t) : t[k] \notin Blanks \cup NewLines

\* '$' without re.MULTILINE: the end of the text, or just before a line feed
\* that ends the text.
EndsWith(t, S) ==
    \/ Len(t) >= 1 /\ t[Len(t)] \in S
    \/ Len(t) >= 2 /\ t[Len(t)] = "\n" /\ t[Len(t) - 1] \in S

\* slideBorder.search(token) finds a match: [blanks]$
slideBorder(t) == EndsWith(t, Blanks)

\* slideStop.search(token) finds a match: [newlines]$
slideStop(t) == EndsWith(t, NewLines)

(***************************************************************************)
(* WikEdDiffText: one text version with its token arena.                   *)
(***************************************************************************)
\* Token(token, prev, next, link, number, unique) as splitText creates it.
Token(token, prev, next) ==
    [token |-> token, prev |-> prev, next |-> next, link |-> None,
     number |-> None, unique |-> FALSE]

\* How often word w occurs in the sequence ws.
RECURSIVE Occurrences(_, _)
Occurrences(ws, w) ==
    IF ws = <<>> THEN 0
    ELSE (IF Head(ws) = w THEN 1 ELSE 0) + Occurrences(Tail(ws), w)

\* The word count table of the words ws.
CountTable(ws) == [w \in {ws[k] : k \in 1..Len(ws)} |-> Occurrences(ws, w)]

\* wordParse(countWords) and wordParse(countChunks): the word count table.
wordParse(text) == CountTable(WordsOf(text))

\* WikEdDiffText.__init__
WikEdDiffText(text) ==
    [text |-> text, tokens |-> <<>>, first |-> None, last |-> None,
     words |-> wordParse(text)]

\* tokens[i].next = v, when there is a token i.
SetNext(toks, i, v) ==
    IF i # None THEN [toks EXCEPT ![i + 1].next = v] ELSE toks

\* A token list whose prev fields are left as they are.
SetPrevNothing(toks, i, v) == toks

\* tokens[i].prev = v, when there is a token i.
SetPrev(toks, i, v) ==
    IF i # None THEN [toks EXCEPT ![i + 1].prev = v] ELSE toks

\* splitText: the tokens of the split list, linked to each other and to the
\* neighbours prev and next of the token they replace; first is the index of
\* the first of them.
SplitTokens(split, first, prev, next) ==
    [k \in 1..Len(split) |->
        Token(split[k],
              IF k = 1 THEN prev ELSE first + k - 2,
              IF k < Len(split) THEN first + k ELSE next)]

\* splitText: add the tokens of the split list to the list of T in place of
\* the token, of the whole text when token is None.
AddTokens(T, token, split, prev, next) ==
    IF Len(split) = 0 THEN T
    ELSE [T EXCEPT
            !.tokens = SetPrev(SetNext(@ \o SplitTokens(split, Len(@), prev, next),
                                       prev, Len(@)),
                               next, Len(@) + Len(split) - 1),
            !.first = IF token = None THEN 0
                      ELSE IF token = T.first THEN Len(T.tokens) ELSE @,
            !.last = IF token = None \/ token = T.last
                     THEN Len(T.tokens) + Len(split) - 1 ELSE @]

\* WikEdDiffText.splitText(level, token)
splitText(T, level, token) ==
    IF token = None
    THEN AddTokens(T, None, Split(level, T.text), None, None)
    ELSE AddTokens(T, token, Split(level, At(T.tokens, token).token),
                   At(T.tokens, token).prev, At(T.tokens, token).next)

\* A refinement that splits every token of the list, linked or not.
RECURSIVE splitRefineEvery(_, _, _)
splitRefineEvery(T, level, i) ==
    IF i = None THEN T
    ELSE LET Refined(T1) == splitRefineEvery(T1, level, At(T1.tokens, i).next) IN
         Refined(splitText(T, level, i))

\* WikEdDiffText.splitRefine(level), from list position i on.
RECURSIVE splitRefineFrom(_, _, _)
splitRefineFrom(T, level, i) ==
    IF i = None THEN T
    ELSE LET Refined(T1) == splitRefineFrom(T1, level, At(T1.tokens, i).next) IN
         Refined(IF At(T.tokens, i).link = None THEN splitText(T, level, i) ELSE T)

splitRefine(T, level) == splitRefineFrom(T, level, T.first)

\* An enumeration that gives a number to the tokens without a link only.
RECURSIVE enumerateUnlinked(_, _, _)
enumerateUnlinked(toks, i, number) ==
    IF i = None THEN toks
    ELSE enumerateUnlinked(IF At(toks, i).link = None
                           THEN [toks EXCEPT ![i + 1].number = number]
                           ELSE toks,
                           At(toks, i).next, number + 1)

\* WikEdDiffText.enumerateTokens, from list position i and number on.
RECURSIVE enumerateFrom(_, _, _)
enumerateFrom(toks, i, number) ==
    IF i = None THEN toks
    ELSE enumerateFrom([toks EXCEPT ![i + 1].number = number],
                       At(toks, i).next, number + 1)

enumerateTokens(T) == [T EXCEPT !.tokens = enumerateFrom(T.tokens, T.first, 0)]

\* The tokens of the linked list of T, first to last, as arena indices.
\* The fuel bounds the walk by the size of the arena.
RECURSIVE ListFrom(_, _, _)
ListFrom(toks, i, fuel) ==
    IF i = None \/ fuel = 0 THEN <<>>
    ELSE <<i>> \o ListFrom(toks, At(toks, i).next, fuel - 1)

ListOf(T) == ListFrom(T.tokens, T.first, Len(T.tokens))

(***************************************************************************)
(* calculateDiff: the five passes of one invocation.  L is the pair of     *)
(* token arenas, [n |-> newText.tokens, o |-> oldText.tokens].             *)
(***************************************************************************)
\* Symbol(newCount, oldCount, newToken, oldToken); key is the token string
\* that symbols.hashTable maps to this entry.
Symbol(key, newCount, oldCount, newToken, oldToken) ==
    [key |-> key, newCount |-> newCount, oldCount |-> oldCount,
     newToken |-> newToken, oldToken |-> oldToken]

\* Symbols(token=[], hashTable={}, linked=False)
EmptySymbols == [token |-> <<>>, linked |-> FALSE]

\* symbols.hashTable[token] + 1, or 0 when the token is not in the table.
RECURSIVE hashTable(_, _, _)
hashTable(syms, key, k) ==
    IF k > Len(syms) THEN 0
    ELSE IF syms[k].key = key THEN k
    ELSE hashTable(syms, key, k + 1)

\* A link set in the new text only.
LinkNewOnly(L, i, j) == [n |-> [L.n EXCEPT ![i + 1].link = j], o |-> L.o]

\* newText.tokens[i].link = j and oldText.tokens[j].link = i
LinkPair(L, i, j) ==
    [n |-> [L.n EXCEPT ![i + 1].link = j],
     o |-> [L.o EXCEPT ![j + 1].link = i]]

\* Pass 1: parse new text into symbol table.
RECURSIVE Pass1(_, _, _, _, _)
Pass1(toks, syms, i, up, recursionLevel) ==
    IF i = None THEN syms
    ELSE LET tk == At(toks, i)
             nxt == IF up THEN tk.prev ELSE tk.next
         IN  IF tk.link = None
             THEN LET h == hashTable(syms, tk.token, 1) IN
                  Pass1(toks,
                        IF h = 0
                        THEN Append(syms, Symbol(tk.token, 1, 0, i, None))
                        ELSE [syms EXCEPT ![h].newCount = @ + 1],
                        nxt, up, recursionLevel)
             ELSE IF recursionLevel > 0 THEN syms
             ELSE Pass1(toks, syms, nxt, up, recursionLevel)

\* Pass 2: parse old text into symbol table.
RECURSIVE Pass2(_, _, _, _, _)
Pass2(toks, syms, j, up, recursionLevel) ==
    IF j = None THEN syms
    ELSE LET tk == At(toks, j)
             nxt == IF up THEN tk.prev ELSE tk.next
         IN  IF tk.link = None
             THEN LET h == hashTable(syms, tk.token, 1) IN
                  Pass2(toks,
                        IF h = 0
                        THEN Append(syms, Symbol(tk.token, 0, 1, None, j))
                        ELSE [syms EXCEPT ![h].oldCount = @ + 1,
                                          ![h].oldToken = j],
                        nxt, up, recursionLevel)
             ELSE IF recursionLevel > 0 THEN syms
             ELSE Pass2(toks, syms, nxt, up, recursionLevel)

\* "at least one unique word": one of the words occurs once in each text.
HasUniqueWord(words, newWords, oldWords) ==
    \E k \in 1..Len(words) :
        /\ words[k] \in DOMAIN oldWords
        /\ words[k] \in DOMAIN newWords
        /\ oldWords[words[k]] = 1
        /\ newWords[words[k]] = 1

\* "Check if token contains unique word", for the words of the token.
UniqueWords(words, newWords, oldWords, blockMinLength) ==
    \/ Len(words) >= blockMinLength
    \/ HasUniqueWord(words, newWords, oldWords)

\* The uniqueness test of pass 3 for a linked token.
IsUnique(token, level, newWords, oldWords, blockMinLength) ==
    \/ level = "character"
    \/ UniqueWords(WordsOf(token), newWords, oldWords, blockMinLength)

\* Pass 3, "Link new and old tokens", "Save linked region borders" and
\* "Set unique" for the tokens newToken and oldToken.
LinkUnique(P, newToken, oldToken, unique) ==
    [n |-> [P.n EXCEPT ![newToken + 1].link = oldToken,
                       ![newToken + 1].unique = @ \/ unique],
     o |-> [P.o EXCEPT ![oldToken + 1].link = newToken,
                       ![oldToken + 1].unique = @ \/ unique],
     linked |-> TRUE,
     down |-> Append(P.down, <<newToken, oldToken>>),
     up |-> Append(P.up, <<newToken, oldToken>>)]

\* A pass 3 that also connects the unique tokens made of blanks only.
RECURSIVE Pass3AlsoBlanks(_, _, _, _)
Pass3AlsoBlanks(P, syms, k, ctx) ==
    IF k > Len(syms) THEN P
    ELSE IF /\ syms[k].newCount = 1 /\ syms[k].oldCount = 1
            /\ At(P.n, syms[k].newToken).link = None
         THEN Pass3AlsoBlanks(LinkUnique(P, syms[k].newToken, syms[k].oldToken,
                                         FALSE),
                              syms, k + 1, ctx)
         ELSE Pass3AlsoBlanks(P, syms, k + 1, ctx)

\* Pass 3: connect unique tokens.  P = [n, o, linked, down, up] from symbol
\* k on; ctx = [level, recursionLevel, newWords, oldWords, blockMinLength].
RECURSIVE Pass3(_, _, _, _)
Pass3(P, syms, k, ctx) ==
    IF k > Len(syms) THEN P
    ELSE IF /\ syms[k].newCount = 1 /\ syms[k].oldCount = 1
            /\ At(P.n, syms[k].newToken).link = None
            /\ blankOnlyToken(At(P.n, syms[k].newToken).token)
         THEN Pass3(LinkUnique(P, syms[k].newToken, syms[k].oldToken,
                               /\ ctx.recursionLevel = 0
                               /\ IsUnique(At(P.n, syms[k].newToken).token,
                                           ctx.level, ctx.newWords, ctx.oldWords,
                                           ctx.blockMinLength)),
                    syms, k + 1, ctx)
         ELSE Pass3(P, syms, k + 1, ctx)

\* The inner loop of passes 4 and 5 and of the text start / text end
\* connection: link identical unlinked tokens from (i, j) on.  brk tells that
\* the loop left by its break, at a pair of different tokens.
RECURSIVE Expand(_, _, _, _, _, _)
Expand(L, i, j, iMatch, jMatch, up) ==
    IF \/ i = None \/ j = None
       \/ At(L.n, i).link # None \/ At(L.o, j).link # None
    THEN [n |-> L.n, o |-> L.o, brk |-> FALSE, iMatch |-> iMatch, jMatch |-> jMatch]
    ELSE IF At(L.n, i).token = At(L.o, j).token
         THEN Expand(LinkPair(L, i, j),
                     IF up THEN At(L.n, i).prev ELSE At(L.n, i).next,
                     IF up THEN At(L.o, j).prev ELSE At(L.o, j).next,
                     i, j, up)
         ELSE [n |-> L.n, o |-> L.o, brk |-> TRUE, iMatch |-> iMatch, jMatch |-> jMatch]

\* The arenas of E with the border of E added to next when cond holds.
SaveBorder(E, next, cond) ==
    [n |-> E.n, o |-> E.o,
     next |-> IF cond THEN Append(next, <<E.iMatch, E.jMatch>>) ELSE next]

\* After the inner loop of pass 4 or 5: "Not a match yet, maybe in next
\* refinement level".
AtBreak(E, next) == SaveBorder(E, next, E.brk)

\* After the loop from the text start or end: "if iMatch is not None".
AtMatch(E, next) == SaveBorder(E, next, E.iMatch # None)

\* Passes 4 and 5: connect adjacent identical tokens downwards (upwards) from
\* every border.  Q = [n, o, next], next the bordersDownNext (bordersUpNext).
RECURSIVE Pass45(_, _, _, _)
Pass45(Q, borders, k, up) ==
    IF k > Len(borders) THEN Q
    ELSE Pass45(AtBreak(Expand(Q,
                               IF up THEN At(Q.n, borders[k][1]).prev
                               ELSE At(Q.n, borders[k][1]).next,
                               IF up THEN At(Q.o, borders[k][2]).prev
                               ELSE At(Q.o, borders[k][2]).next,
                               borders[k][1], borders[k][2], up),
                        Q.next),
                borders, k + 1, up)

\* Connect adjacent identical tokens from the text start (the text end).
FromBoundary(Q, i, j, up) == AtMatch(Expand(Q, i, j, None, None, up), Q.next)

(***************************************************************************)
(* slideGaps(text, textLinked).  S = [t |-> text.tokens,                   *)
(* l |-> textLinked.tokens].                                               *)
(***************************************************************************)
\* "Slide down as deep as possible": the code tests its condition once.
\* front is gapFront, back the token after gapBack.
SlideDown(S, gapFront, gapBack, back) ==
    IF /\ gapFront # None /\ back # None
       /\ At(S.t, gapFront).link = None
       /\ At(S.t, back).link # None
       /\ At(S.t, gapFront).token = At(S.t, back).token
    THEN [t |-> [S.t EXCEPT ![gapFront + 1].link = At(S.t, back).link,
                            ![back + 1].link = None],
          l |-> [S.l EXCEPT ![At(S.t, back).link + 1].link = gapFront],
          gapFront |-> At(S.t, gapFront).next,
          gapBack |-> back]
    ELSE [t |-> S.t, l |-> S.l, gapFront |-> gapFront, gapBack |-> gapBack]

\* "Test slide up, remember last line break or word border".  The stop at a
\* line break compares a match object with True and never holds; two match
\* objects, or a match and None, always differ.
RECURSIVE SlideStopAt(_, _, _, _, _)
SlideStopAt(toks, front, back, gapFrontBlankTest, frontStop) ==
    IF /\ front # None /\ back # None
       /\ At(toks, front).link # None
       /\ At(toks, front).token = At(toks, back).token
    THEN SlideStopAt(toks, At(toks, front).prev, At(toks, back).prev,
                     gapFrontBlankTest,
                     IF slideBorder(At(toks, front).token) \/ gapFrontBlankTest
                     THEN front ELSE frontStop)
    ELSE frontStop

\* "Actually slide up to stop"
RECURSIVE SlideUp(_, _, _, _)
SlideUp(S, front, back, frontStop) ==
    IF /\ front # None /\ back # None /\ front # frontStop
       /\ At(S.t, front).link # None
       /\ At(S.t, back).link = None
       /\ At(S.t, front).token = At(S.t, back).token
    THEN SlideUp([t |-> [S.t EXCEPT ![back + 1].link = At(S.t, front).link,
                                    ![front + 1].link = None],
                  l |-> [S.l EXCEPT ![At(S.t, front).link + 1].link = back]],
                 At(S.t, front).prev, At(S.t, back).prev, frontStop)
    ELSE [t |-> S.t, l |-> S.l]

\* The slide up of the gap D.gapFront .. D.gapBack, from front on.
SlideUpFrom(D, front) ==
    SlideUp([t |-> D.t, l |-> D.l], front, D.gapBack,
            IF At(D.t, D.gapBack).link = None
            THEN SlideStopAt(D.t, front, D.gapBack,
                             slideBorder(At(D.t, D.gapFront).token), front)
            ELSE front)

\* The slide up after the slide down D.
SlideBack(D) == SlideUpFrom(D, At(D.t, D.gapFront).prev)

\* One gap of slideGaps: the unmatched run gapStart .. prev(i).
SlideGap(S, gapStart, i) ==
    SlideBack(SlideDown(S, gapStart, At(S.t, i).prev,
                        At(S.t, At(S.t, i).prev).next))

\* slideGaps, the cycle through the tokens list.
RECURSIVE slideGapsFrom(_, _, _)
slideGapsFrom(S, i, gapStart) ==
    IF i = None THEN S
    ELSE IF gapStart = None /\ At(S.t, i).link = None
         THEN slideGapsFrom(S, At(S.t, i).next, i)
         ELSE IF gapStart # None /\ At(S.t, i).link # None
              THEN slideGapsFrom(SlideGap(S, gapStart, i), At(S.t, i).next, None)
              ELSE slideGapsFrom(S, At(S.t, i).next, gapStart)

\* The texts with the arenas of S.
Slid(text, textLinked, S) ==
    [text |-> [text EXCEPT !.tokens = S.t],
     textLinked |-> [textLinked EXCEPT !.tokens = S.l]]

\* slideGaps(text, textLinked): the two texts with their links slid.
slideGaps(text, textLinked) ==
    Slid(text, textLinked,
         slideGapsFrom([t |-> text.tokens, l |-> textLinked.tokens],
                       text.first, None))

\* The result of slideGaps(oldText, newText), as the pair of texts.
SlidOld(b) == [newText |-> b.textLinked, oldText |-> b.text]

\* slideGaps(oldText, newText) on the result of slideGaps(newText, oldText).
SlideOld(a) == SlidOld(slideGaps(a.textLinked, a.text))

\* slideGaps(newText, oldText) followed by slideGaps(oldText, newText).
slideBoth(N, O) == SlideOld(slideGaps(N, O))

(***************************************************************************)
(* splitRefineChars                                                        *)
(***************************************************************************)
Gap(newFirst, newLast, newTokens, oldFirst, oldLast, oldTokens) ==
    [newFirst |-> newFirst, newLast |-> newLast, newTokens |-> newTokens,
     oldFirst |-> oldFirst, oldLast |-> oldLast, oldTokens |-> oldTokens]

\* "Find corresponding gaps": cycle through the new text tokens list.  gap is
\* TRUE while the last gap of gaps is open.
RECURSIVE FindGaps(_, _, _, _, _, _)
FindGaps(n, o, i, j, gaps, gap) ==
    IF i = None THEN gaps
    ELSE LET newLink == At(n, i).link
             oldLink == IF j # None THEN At(o, j).link ELSE None
             jNext == IF newLink # None THEN At(o, newLink).next ELSE j
             iNext == At(n, i).next
         IN  IF ~gap /\ newLink = None /\ oldLink = None
             THEN FindGaps(n, o, iNext, jNext,
                           Append(gaps, Gap(i, i, 1, j, j, 0)), TRUE)
             ELSE IF gap /\ newLink = None
                  THEN FindGaps(n, o, iNext, jNext,
                                [gaps EXCEPT ![Len(gaps)].newLast = i,
                                             ![Len(gaps)].newTokens = @ + 1],
                                TRUE)
                  ELSE IF gap /\ newLink # None
                       THEN FindGaps(n, o, iNext, jNext, gaps, FALSE)
                       ELSE FindGaps(n, o, iNext, jNext, gaps, gap)

\* "Cycle through gaps and add old text gap data"
RECURSIVE OldGap(_, _, _)
OldGap(o, g, j) ==
    IF j # None /\ At(o, j).link = None
    THEN OldGap(o, [g EXCEPT !.oldLast = j, !.oldTokens = @ + 1], At(o, j).next)
    ELSE g

\* Number of identical characters from the left, up to the length n of the
\* shorter token.
RECURSIVE LeftIdent(_, _, _, _)
LeftIdent(a, b, left, n) ==
    IF left < n /\ a[left + 1] = b[left + 1]
    THEN LeftIdent(a, b, left + 1, n) ELSE left

\* Number of identical characters from the right.
RECURSIVE RightIdent(_, _, _, _)
RightIdent(a, b, right, n) ==
    IF right < n /\ a[Len(a) - right] = b[Len(b) - right]
    THEN RightIdent(a, b, right + 1, n) ELSE right

\* shorterToken in longerToken
IsSubstring(short, long) ==
    \E k \in 0..(Len(long) - Len(short)) :
        SubSeq(long, k + 1, k + Len(short)) = short

\* The test of the pair of tokens without the case of the same token length.
DissimilarLengths(newToken, oldToken) ==
    LET shorterToken == IF Len(newToken) < Len(oldToken) THEN newToken ELSE oldToken
        longerToken == IF Len(newToken) < Len(oldToken) THEN oldToken ELSE newToken
        n == Len(shorterToken)
    IN  /\ Len(newToken) # Len(oldToken)
        /\ LeftIdent(newToken, oldToken, 0, n) + RightIdent(newToken, oldToken, 0, n) # n
        /\ ~IsSubstring(shorterToken, longerToken)
        /\ 2 * LeftIdent(newToken, oldToken, 0, n) < n
        /\ 2 * RightIdent(newToken, oldToken, 0, n) < n

\* The pair of tokens (newToken, oldToken) forbids splitting its gap.
Dissimilar(newToken, oldToken) ==
    LET shorterToken == IF Len(newToken) < Len(oldToken) THEN newToken ELSE oldToken
        longerToken == IF Len(newToken) < Len(oldToken) THEN oldToken ELSE newToken
        n == Len(shorterToken)
    IN  IF Len(newToken) # Len(oldToken)
        THEN LET left == LeftIdent(newToken, oldToken, 0, n)
                 right == RightIdent(newToken, oldToken, 0, n)
             IN  /\ left + right # n
                 /\ ~IsSubstring(shorterToken, longerToken)
                 /\ 2 * left < n /\ 2 * right < n
        ELSE /\ newToken # oldToken
             /\ 100 * Cardinality({pos \in 1..n : shorterToken[pos] = longerToken[pos]})
                  < 49 * n

\* "Cycle through new text tokens list and set charSplit", same gap length.
RECURSIVE Similar(_, _, _, _, _)
Similar(n, o, g, i, j) ==
    IF i = None THEN TRUE
    ELSE IF Dissimilar(At(n, i).token, At(o, j).token) THEN FALSE
    ELSE IF i = g.newLast THEN TRUE
    ELSE Similar(n, o, g, At(n, i).next, At(o, j).next)

IsPrefix(p, t) == Len(p) <= Len(t) /\ SubSeq(t, 1, Len(p)) = p
IsSuffix(p, t) == Len(p) <= Len(t) /\ SubSeq(t, Len(t) - Len(p) + 1, Len(t)) = p

\* Gap selection without the case of one token against three.
charSplitSameNumber(n, o, g) ==
    g.newTokens = g.oldTokens /\ Similar(n, o, g, g.newFirst, g.oldFirst)

\* "Select gaps of identical token number and strong similarity of all
\* tokens": gap.charSplit is True.
charSplit(n, o, g) ==
    IF g.newTokens # g.oldTokens
    THEN \/ /\ g.newTokens = 1 /\ g.oldTokens = 3
            /\ IsPrefix(At(o, g.oldFirst).token, At(n, g.newFirst).token)
            /\ IsSuffix(At(o, g.oldLast).token, At(n, g.newFirst).token)
         \/ /\ g.oldTokens = 1 /\ g.newTokens = 3
            /\ IsPrefix(At(n, g.newFirst).token, At(o, g.oldFirst).token)
            /\ IsSuffix(At(n, g.newLast).token, At(o, g.oldFirst).token)
    ELSE Similar(n, o, g, g.newFirst, g.oldFirst)

\* "Link identical tokens (spaces) to keep char refinement to words", or
\* else "Refine words into chars", for the pair (i, j) of gap g.
RefinePair(R, g, i, j) ==
    IF /\ g.newFirst - g.newLast = g.oldFirst - g.oldLast
       /\ At(R.newText.tokens, i).token = At(R.oldText.tokens, j).token
    THEN [newText |-> [R.newText EXCEPT !.tokens[i + 1].link = j],
          oldText |-> [R.oldText EXCEPT !.tokens[j + 1].link = i]]
    ELSE [newText |-> IF i # None THEN splitText(R.newText, "character", i)
                      ELSE R.newText,
          oldText |-> IF j # None THEN splitText(R.oldText, "character", j)
                      ELSE R.oldText]

\* "Next list elements": the token after i, None after the last of the gap.
NextInGap(toks, i, last) ==
    IF i = None \/ i = last THEN None ELSE At(toks, i).next

\* "Refine words into chars in selected gaps.": one selected gap, from the
\* pair (i, j) on.  R = [newText, oldText].
RECURSIVE RefineGap(_, _, _, _)
RefineGap(R, g, i, j) ==
    IF i = None /\ j = None THEN R
    ELSE LET Refined(R1) ==
                 RefineGap(R1, g, NextInGap(R1.newText.tokens, i, g.newLast),
                           NextInGap(R1.oldText.tokens, j, g.oldLast))
         IN  Refined(RefinePair(R, g, i, j))

RECURSIVE RefineGaps(_, _, _)
RefineGaps(R, gaps, k) ==
    IF k > Len(gaps) THEN R
    ELSE RefineGaps(IF gaps[k].charSplit
                    THEN RefineGap(R, gaps[k], gaps[k].newFirst, gaps[k].oldFirst)
                    ELSE R,
                    gaps, k + 1)

\* "Cycle through gaps and add old text gap data", for every gap.
OldGaps(o, gaps) == [k \in 1..Len(gaps) |-> OldGap(o, gaps[k], gaps[k].oldFirst)]

\* "Select gaps ...", for every gap: the gaps with their charSplit flag.
Selected(n, o, gaps) ==
    [k \in 1..Len(gaps) |->
        [newFirst |-> gaps[k].newFirst, newLast |-> gaps[k].newLast,
         newTokens |-> gaps[k].newTokens, oldFirst |-> gaps[k].oldFirst,
         oldLast |-> gaps[k].oldLast, oldTokens |-> gaps[k].oldTokens,
         charSplit |-> charSplit(n, o, gaps[k])]]

\* The gaps of splitRefineChars with their charSplit flag.
GapsOf(N, O) ==
    Selected(N.tokens, O.tokens,
             OldGaps(O.tokens,
                     FindGaps(N.tokens, O.tokens, N.first, O.first, <<>>, FALSE)))

splitRefineChars(N, O) ==
    RefineGaps([newText |-> N, oldText |-> O], GapsOf(N, O), 1)

(***************************************************************************)
(* Blocks, sections and groups.                                            *)
(***************************************************************************)
\* int_or_null of utils.py
int_or_null(value) == IF value = None THEN 0 ELSE value

\* Order of the sort keys <<a, b>>.
KeyLess(x, y) == x[1] < y[1] \/ (x[1] = y[1] /\ x[2] < y[2])

\* list.sort / sorted: the stable order of the indices 1..Len(keys) by key.
SortOrder(keys) ==
    LET n == Len(keys)
        rank(e) == Cardinality({d \in 1..n :
                        KeyLess(keys[d], keys[e]) \/ (keys[d] = keys[e] /\ d < e)})
    IN  [k \in 1..n |-> CHOOSE e \in 1..n : rank(e) = k - 1]

\* The inverse of a sort order: where each index went.
Inverse(order) ==
    [e \in 1..Len(order) |-> CHOOSE k \in 1..Len(order) : order[k] = e]

Permute(list, order) == [k \in 1..Len(order) |-> list[order[k]]]

\* Comparing None with a number, or with None, raises TypeError: a sort of
\* two or more items fails when one of the keys is None.
SortRaises(keys) == Len(keys) >= 2 /\ \E k \in 1..Len(keys) : keys[k] = None

\* A block record.
Block(oldBlock, newBlock, oldNumber, newNumber, oldStart, count, unique,
      words, chars, type, section, group, fixed, moved, text) ==
    [oldBlock |-> oldBlock, newBlock |-> newBlock, oldNumber |-> oldNumber,
     newNumber |-> newNumber, oldStart |-> oldStart, count |-> count,
     unique |-> unique, words |-> words, chars |-> chars, type |-> type,
     section |-> section, group |-> group, fixed |-> fixed, moved |-> moved,
     text |-> text]

\* "Detect matching blocks ('=')": the run of old tokens from j on whose links
\* follow the new text from i on.  B = [i, j, count, unique, text].
RECURSIVE SameRun(_, _, _)
SameRun(n, o, B) ==
    IF B.i # None /\ B.j # None /\ At(o, B.j).link = B.i
    THEN SameRun(n, o,
                 [i |-> At(n, B.i).next, j |-> At(o, B.j).next,
                  count |-> B.count + 1,
                  unique |-> B.unique \/ At(n, B.i).unique,
                  text |-> B.text \o At(o, B.j).token])
    ELSE B

\* getSameBlocks, the cycle through the old text from j on.
RECURSIVE SameBlocksFrom(_, _, _, _)
SameBlocksFrom(n, o, j, blocks) ==
    IF j = None THEN blocks
    ELSE IF At(o, j).link = None THEN SameBlocksFrom(n, o, At(o, j).next, blocks)
    ELSE LET i == At(o, j).link
             B == SameRun(n, o, [i |-> i, j |-> j, count |-> 0,
                                 unique |-> FALSE, text |-> <<>>])
         IN  SameBlocksFrom(n, o, B.j,
                 Append(blocks,
                        Block(Len(blocks), None, At(o, j).number,
                              At(n, i).number, j, B.count, B.unique,
                              wordCount(B.text), Len(B.text), "=", None, None,
                              FALSE, None, B.text)))

\* getSameBlocks before its sort.
SameBlocksUnsorted(N, O) == SameBlocksFrom(N.tokens, O.tokens, O.first, <<>>)

\* getSameBlocks: sorted by newNumber, numbered in new text order.
getSameBlocks(N, O) ==
    LET bl == SameBlocksUnsorted(N, O)
        order == SortOrder([k \in 1..Len(bl) |-> <<bl[k].newNumber, 0>>])
    IN  [k \in 1..Len(bl) |-> [bl[order[k]] EXCEPT !.newBlock = k - 1]]

\* A check to the right against the oldNumber of the section start only.
RECURSIVE CheckRightOfStart(_, _, _)
CheckRightOfStart(blocks, j, X) ==
    IF j >= Len(blocks) THEN X
    ELSE CheckRightOfStart(blocks, j + 1,
            IF At(blocks, j).oldNumber < X.sectionOldMax
            THEN [X EXCEPT !.sectionEnd = j] ELSE X)

\* getSections, "Check right": X = [oldMax, sectionOldMax, sectionEnd].
RECURSIVE CheckRight(_, _, _)
CheckRight(blocks, j, X) ==
    IF j >= Len(blocks) THEN X
    ELSE CheckRight(blocks, j + 1,
            IF At(blocks, j).oldNumber > X.oldMax
            THEN [X EXCEPT !.oldMax = At(blocks, j).oldNumber]
            ELSE IF At(blocks, j).oldNumber < X.sectionOldMax
                 THEN [X EXCEPT !.sectionEnd = j, !.sectionOldMax = X.oldMax]
                 ELSE X)

\* getSections, the cycle through the blocks from block on.
\* G = [blocks, sections].
RECURSIVE SectionsFrom(_, _)
SectionsFrom(G, block) ==
    IF block >= Len(G.blocks) THEN G
    ELSE LET sectionStart == block
             X == CheckRight(G.blocks, sectionStart + 1,
                             [oldMax |-> At(G.blocks, sectionStart).oldNumber,
                              sectionOldMax |-> At(G.blocks, sectionStart).oldNumber,
                              sectionEnd |-> block])
         IN  IF X.sectionEnd > sectionStart
             THEN SectionsFrom(
                    [blocks |-> [k \in 1..Len(G.blocks) |->
                                    IF k - 1 >= sectionStart /\ k - 1 <= X.sectionEnd
                                    THEN [G.blocks[k] EXCEPT !.section = Len(G.sections)]
                                    ELSE G.blocks[k]],
                     sections |-> Append(G.sections,
                                         [blockStart |-> sectionStart,
                                          blockEnd |-> X.sectionEnd])],
                    X.sectionEnd)
             ELSE SectionsFrom(G, block + 1)

getSections(blocks) == SectionsFrom([blocks |-> blocks, sections |-> <<>>], 0)

\* A group record.
Group(oldNumber, blockStart, blockEnd, unique, maxWords, words, chars, fixed) ==
    [oldNumber |-> oldNumber, blockStart |-> blockStart, blockEnd |-> blockEnd,
     unique |-> unique, maxWords |-> maxWords, words |-> words, chars |-> chars,
     fixed |-> fixed, movedFrom |-> None, color |-> 0]

\* getGroups, "Check right": Y = [oldBlock, maxWords, unique, words, chars,
\* groupEnd].
RECURSIVE GroupRight(_, _, _)
GroupRight(blocks, i, Y) ==
    IF i >= Len(blocks) \/ At(blocks, i).oldBlock # Y.oldBlock + 1 THEN Y
    ELSE GroupRight(blocks, i + 1,
            [oldBlock |-> At(blocks, i).oldBlock,
             maxWords |-> IF At(blocks, i).words > Y.maxWords
                          THEN At(blocks, i).words ELSE Y.maxWords,
             unique |-> Y.unique \/ At(blocks, i).unique,
             words |-> Y.words + At(blocks, i).words,
             chars |-> Y.chars + At(blocks, i).chars,
             groupEnd |-> i])

\* getGroups, the cycle through the blocks.  G = [blocks, groups, maxWords].
RECURSIVE GroupsFrom(_, _)
GroupsFrom(G, block) ==
    IF block >= Len(G.blocks) THEN G
    ELSE LET groupStart == block
             words == wordCount(At(G.blocks, block).text)
             Y == GroupRight(G.blocks, block + 1,
                             [oldBlock |-> At(G.blocks, groupStart).oldBlock,
                              maxWords |-> words,
                              unique |-> At(G.blocks, block).unique,
                              words |-> words,
                              chars |-> At(G.blocks, block).chars,
                              groupEnd |-> block])
             fixed == At(G.blocks, groupStart).section = None
         IN  GroupsFrom(
                [blocks |-> [k \in 1..Len(G.blocks) |->
                                IF k - 1 >= groupStart /\ k - 1 <= Y.groupEnd
                                THEN [G.blocks[k] EXCEPT !.group = Len(G.groups),
                                                         !.fixed = fixed]
                                ELSE G.blocks[k]],
                 groups |-> Append(G.groups,
                                   Group(At(G.blocks, groupStart).oldNumber,
                                         groupStart, Y.groupEnd, Y.unique,
                                         Y.maxWords, Y.words, Y.chars, fixed)),
                 maxWords |-> IF Y.maxWords > G.maxWords
                              THEN Y.maxWords ELSE G.maxWords],
                Y.groupEnd + 1)

getGroups(blocks, maxWords) ==
    GroupsFrom([blocks |-> blocks, groups |-> <<>>, maxWords |-> maxWords], 0)

\* A cache entry of findMaxPath: the copy of a path and its chars, kept for
\* the start group of the path.
CacheEntry(start, path, chars) == [start |-> start, path |-> path, chars |-> chars]

\* "i in cache" and "cache[i]", as a fresh CacheEntry with a copy of the path.
InCache(cache, i) == \E e \in cache : e.start = i
Cached(cache, i) ==
    LET e == CHOOSE e \in cache : e.start = i IN [path |-> e.path, chars |-> e.chars]

\* findMaxPath(start, groupEnd, cache): the path of groups in increasing old
\* order with the longest char length, as [obj, cache]: the returnObj and the
\* cache after the call.  SubPath is "Find longest sub-path" from group i on,
\* R = [best, cache].
RECURSIVE findMaxPath(_, _, _, _)
RECURSIVE SubPath(_, _, _, _, _)
SubPath(groups, start, i, groupEnd, R) ==
    IF i > groupEnd THEN R
    ELSE IF At(groups, i).oldNumber < At(groups, start).oldNumber
         THEN SubPath(groups, start, i + 1, groupEnd, R)
         ELSE LET Selected1(P) ==
                      SubPath(groups, start, i + 1, groupEnd,
                              [best |-> IF P.obj.chars > R.best.chars
                                        THEN P.obj ELSE R.best,
                               cache |-> P.cache])
              IN  Selected1(IF InCache(R.cache, i)
                            THEN [obj |-> Cached(R.cache, i), cache |-> R.cache]
                            ELSE findMaxPath(groups, i, groupEnd, R.cache))

findMaxPath(groups, start, groupEnd, cache) ==
    LET Saved(path, chars, cache1) ==
            [obj |-> [path |-> path, chars |-> chars],
             cache |-> IF InCache(cache1, start) THEN cache1
                       ELSE cache1 \cup {CacheEntry(start, path, chars)}]
        Added(R) == Saved(<<start>> \o R.best.path,
                          R.best.chars + At(groups, start).chars, R.cache)
    IN  Added(SubPath(groups, start, start + 1, groupEnd,
                      [best |-> [path |-> <<>>, chars |-> 0], cache |-> cache]))

\* A search that starts at the first group of the section only.
MaxPathFirst(groups, i, groupEnd, M) ==
    IF i > groupEnd THEN M.best ELSE findMaxPath(groups, i, groupEnd, M.cache).obj

\* setFixed, "Start at each group of section": M = [best, cache], best the
\* maxPath and maxChars so far.
RECURSIVE MaxPathFrom(_, _, _, _)
MaxPathFrom(groups, i, groupEnd, M) ==
    IF i > groupEnd THEN M.best
    ELSE LET Longer(P) ==
                 MaxPathFrom(groups, i + 1, groupEnd,
                             [best |-> IF P.obj.chars > M.best.chars
                                       THEN P.obj ELSE M.best,
                              cache |-> P.cache])
         IN  Longer(findMaxPath(groups, i, groupEnd, M.cache))

\* setFixed for the sections from k on.  G = [blocks, groups].
RECURSIVE FixedFrom(_, _, _)
FixedFrom(G, sections, k) ==
    IF k > Len(sections) THEN G
    ELSE LET groupStart == At(G.blocks, sections[k].blockStart).group
             groupEnd == At(G.blocks, sections[k].blockEnd).group
             maxPath == MaxPathFrom(G.groups, groupStart, groupEnd,
                                    [best |-> [path |-> <<>>, chars |-> 0],
                                     cache |-> {}]).path
             onPath(g) == \E m \in 1..Len(maxPath) : maxPath[m] = g
         IN  FixedFrom(
                [groups |-> [g \in 1..Len(G.groups) |->
                                IF onPath(g - 1)
                                THEN [G.groups[g] EXCEPT !.fixed = TRUE]
                                ELSE G.groups[g]],
                 blocks |-> [b \in 1..Len(G.blocks) |->
                                IF \E m \in 1..Len(maxPath) :
                                      /\ b - 1 >= At(G.groups, maxPath[m]).blockStart
                                      /\ b - 1 <= At(G.groups, maxPath[m]).blockEnd
                                THEN [G.blocks[b] EXCEPT !.fixed = TRUE]
                                ELSE G.blocks[b]]],
                sections, k + 1)

setFixed(blocks, groups, sections) ==
    FixedFrom([blocks |-> blocks, groups |-> groups], sections, 1)

(***************************************************************************)
(* Unlinking.                                                              *)
(***************************************************************************)
\* unlinkSingleBlock: T = [newText, oldText], count tokens from j on.
RECURSIVE UnlinkTokens(_, _, _)
UnlinkTokens(T, j, count) ==
    IF count = 0 THEN T
    ELSE UnlinkTokens(
            [newText |-> [T.newText EXCEPT
                            !.tokens[At(T.oldText.tokens, j).link + 1].link = None],
             oldText |-> [T.oldText EXCEPT !.tokens[j + 1].link = None]],
            At(T.oldText.tokens, j).next, count - 1)

unlinkSingleBlock(T, block) == UnlinkTokens(T, block.oldStart, block.count)

\* unlinkBlocks, "Unlink whole group": U = [newText, oldText, unlinked].
RECURSIVE UnlinkWhole(_, _, _, _)
UnlinkWhole(U, blocks, block, blockEnd) ==
    IF block > blockEnd THEN U
    ELSE UnlinkWhole(
            IF At(blocks, block).type = "="
            THEN LET T == unlinkSingleBlock(U, At(blocks, block)) IN
                 [newText |-> T.newText, oldText |-> T.oldText, unlinked |-> TRUE]
            ELSE U,
            blocks, block + 1, blockEnd)

\* unlinkBlocks, "Unlink blocks from start": V = [U, blockStart].
RECURSIVE UnlinkFromStart(_, _, _, _)
UnlinkFromStart(V, blocks, block, blockEnd) ==
    IF block > blockEnd THEN V
    ELSE IF At(blocks, block).type # "="
         THEN UnlinkFromStart(V, blocks, block + 1, blockEnd)
         ELSE IF At(blocks, block).words > 1 \/ At(blocks, block).unique
              THEN V
              ELSE LET T == unlinkSingleBlock(V.U, At(blocks, block)) IN
                   UnlinkFromStart(
                      [U |-> [newText |-> T.newText, oldText |-> T.oldText,
                              unlinked |-> TRUE],
                       blockStart |-> block],
                      blocks, block + 1, blockEnd)

\* unlinkBlocks, "Unlink blocks from end".
RECURSIVE UnlinkFromEnd(_, _, _, _)
UnlinkFromEnd(U, blocks, block, blockStart) ==
    IF block <= blockStart THEN U
    ELSE IF At(blocks, block).type # "="
         THEN UnlinkFromEnd(U, blocks, block - 1, blockStart)
         ELSE IF \/ At(blocks, block).words > 1
                 \/ (At(blocks, block).words = 1 /\ At(blocks, block).unique)
              THEN U
              ELSE LET T == unlinkSingleBlock(U, At(blocks, block)) IN
                   UnlinkFromEnd(
                      [newText |-> T.newText, oldText |-> T.oldText,
                       unlinked |-> TRUE],
                      blocks, block - 1, blockStart)

\* unlinkBlocks, the cycle through the groups.
RECURSIVE UnlinkGroups(_, _, _, _, _)
UnlinkGroups(U, blocks, groups, group, blockMinLength) ==
    IF group >= Len(groups) THEN U
    ELSE LET blockStart == At(groups, group).blockStart
             blockEnd == At(groups, group).blockEnd
         IN  UnlinkGroups(
                IF /\ At(groups, group).maxWords < blockMinLength
                   /\ ~At(groups, group).unique
                THEN UnlinkWhole(U, blocks, blockStart, blockEnd)
                ELSE LET V == UnlinkFromStart([U |-> U, blockStart |-> blockStart],
                                              blocks, blockStart, blockEnd)
                     IN  UnlinkFromEnd(V.U, blocks, blockEnd, V.blockStart),
                blocks, groups, group + 1, blockMinLength)

\* unlinkBlocks: [newText, oldText, unlinked].
unlinkBlocks(N, O, blocks, groups, blockMinLength) ==
    UnlinkGroups([newText |-> N, oldText |-> O, unlinked |-> FALSE],
                 blocks, groups, 0, blockMinLength)

(***************************************************************************)
(* Deletion and insertion blocks.                                          *)
(***************************************************************************)
\* The unlinked run from j on: D = [j, count, text].
RECURSIVE UnlinkedRun(_, _)
UnlinkedRun(toks, D) ==
    IF D.j # None /\ At(toks, D.j).link = None
    THEN UnlinkedRun(toks, [j |-> At(toks, D.j).next, count |-> D.count + 1,
                            text |-> D.text \o At(toks, D.j).token])
    ELSE D

\* getDelBlocks, "Skip '=' blocks": the old token after the run of links.
RECURSIVE SkipSame(_, _, _, _)
SkipSame(n, o, i, j) ==
    IF i # None /\ j # None /\ At(o, j).link = i
    THEN SkipSame(n, o, At(n, i).next, At(o, j).next)
    ELSE j

\* getDelBlocks, the cycle through the old text.
RECURSIVE DelBlocksFrom(_, _, _, _)
DelBlocksFrom(n, o, j, blocks) ==
    IF j = None THEN blocks
    ELSE LET D == UnlinkedRun(o, [j |-> j, count |-> 0, text |-> <<>>])
             saved == IF D.count # 0
                      THEN Append(blocks,
                                  Block(None, None, At(o, j).number, None, j,
                                        D.count, FALSE, 0, Len(D.text), "-",
                                        None, None, FALSE, None, D.text))
                      ELSE blocks
         IN  IF D.j = None THEN saved
             ELSE DelBlocksFrom(n, o, SkipSame(n, o, At(o, D.j).link, D.j), saved)

getDelBlocks(N, O, blocks) == DelBlocksFrom(N.tokens, O.tokens, O.first, blocks)

\* getInsBlocks, "Jump over linked (matched) block".
RECURSIVE SkipLinked(_, _)
SkipLinked(toks, i) ==
    IF i # None /\ At(toks, i).link # None THEN SkipLinked(toks, At(toks, i).next)
    ELSE i

\* getInsBlocks, the cycle through the new text.
RECURSIVE InsBlocksFrom(_, _, _)
InsBlocksFrom(n, i, blocks) ==
    IF i = None THEN blocks
    ELSE LET iStart == SkipLinked(n, i) IN
         IF iStart = None THEN blocks
         ELSE LET D == UnlinkedRun(n, [j |-> iStart, count |-> 0, text |-> <<>>])
              IN  InsBlocksFrom(n, D.j,
                     Append(blocks,
                            Block(None, None, None, At(n, iStart).number, None,
                                  D.count, FALSE, 0, Len(D.text), "+",
                                  None, None, FALSE, None, D.text)))

\* A cycle through the new text that starts after its first token.
InsBlocksAfterFirst(N, blocks) ==
    IF N.first = None THEN blocks
    ELSE InsBlocksFrom(N.tokens, At(N.tokens, N.first).next, blocks)

\* getInsBlocks before its sortBlocks.
InsBlocks(N, blocks) == InsBlocksFrom(N.tokens, N.first, blocks)

\* sortBlocks, "update groups with new block numbers": the cycle through the
\* blocks; group starts as 0.
RECURSIVE UpdateGroups(_, _, _, _)
UpdateGroups(blocks, groups, block, group) ==
    IF block >= Len(blocks) THEN groups
    ELSE LET blockGroup == At(blocks, block).group IN
         IF blockGroup # None /\ blockGroup < Len(groups)
         THEN LET started ==
                    IF blockGroup # group
                    THEN [groups EXCEPT
                            ![blockGroup + 1].blockStart = block,
                            ![blockGroup + 1].oldNumber = At(blocks, block).oldNumber]
                    ELSE groups
              IN  UpdateGroups(blocks,
                               [started EXCEPT ![blockGroup + 1].blockEnd = block],
                               block + 1, blockGroup)
         ELSE UpdateGroups(blocks, groups, block + 1, group)

\* sortBlocks: [blocks, groups].
sortBlocks(blocks, groups) ==
    LET order == SortOrder([k \in 1..Len(blocks) |->
                              <<int_or_null(blocks[k].newNumber),
                                int_or_null(blocks[k].oldNumber)>>])
        sorted == Permute(blocks, order)
    IN  [blocks |-> sorted, groups |-> UpdateGroups(sorted, groups, 0, 0)]

getInsBlocks(N, blocks, groups) == sortBlocks(InsBlocks(N, blocks), groups)

\* positionDelBlocks, "Move after closest previous fixed block": the index in
\* blocks of the reference block, None when there is none.
RECURSIVE ClosestFixed(_, _, _)
ClosestFixed(blocks, order, fixed) ==
    IF fixed < 0 THEN None
    ELSE IF blocks[At(order, fixed)].type = "=" /\ blocks[At(order, fixed)].fixed
         THEN At(order, fixed) - 1
         ELSE ClosestFixed(blocks, order, fixed - 1)

\* A reference that is always the closest fixed block before the '-' block.
DelRefClosest(blocks, groups, order, block) == ClosestFixed(blocks, order, block)

\* positionDelBlocks, the reference block of the '-' block at position block of
\* blocksOld: its index in blocks, None for "Move before first block".
DelRefBlock(blocks, groups, order, block) ==
    LET hasPrev == block > 0
        prevBlockNumber == blocks[At(order, block - 1)].newBlock
        prevBlock == At(blocks, prevBlockNumber)
        hasNext == block < Len(order) - 1
        nextBlockNumber == blocks[At(order, block + 1)].newBlock
        nextBlock == At(blocks, nextBlockNumber)
    IN  IF hasPrev /\ prevBlock.type = "=" /\ prevBlock.fixed
        THEN prevBlockNumber
        ELSE IF hasNext /\ nextBlock.type = "=" /\ nextBlock.fixed
        THEN nextBlockNumber
        ELSE IF /\ hasPrev
                /\ prevBlock.type = "="
                /\ prevBlockNumber # At(groups, prevBlock.group).blockEnd
        THEN prevBlockNumber
        ELSE IF /\ hasNext
                /\ nextBlock.type = "="
                /\ nextBlockNumber # At(groups, nextBlock.group).blockStart
        THEN nextBlockNumber
        ELSE ClosestFixed(blocks, order, block)

\* positionDelBlocks, the cycle through the blocks in old text order.
RECURSIVE PositionFrom(_, _, _, _)
PositionFrom(blocks, groups, order, block) ==
    IF block >= Len(order) THEN blocks
    ELSE IF blocks[At(order, block)].type # "-"
         THEN PositionFrom(blocks, groups, order, block + 1)
         ELSE LET refBlock == DelRefBlock(blocks, groups, order, block)
                  d == At(order, block)
              IN  PositionFrom(
                     IF refBlock = None
                     THEN [blocks EXCEPT ![d].newNumber = -1]
                     ELSE [blocks EXCEPT
                             ![d].newNumber = At(blocks, refBlock).newNumber,
                             ![d].section = At(blocks, refBlock).section,
                             ![d].group = At(blocks, refBlock).group,
                             ![d].fixed = At(blocks, refBlock).fixed],
                     groups, order, block + 1)

\* positionDelBlocks: [blocks, groups].
positionDelBlocks(blocks, groups) ==
    LET order == SortOrder([k \in 1..Len(blocks) |-> <<blocks[k].oldNumber, 0>>])
    IN  sortBlocks(PositionFrom(blocks, groups, order, 0), groups)

\* setInsGroups, "Set group numbers of '+' blocks inside existing groups".
RECURSIVE InsideGroups(_, _, _)
InsideGroups(blocks, groups, group) ==
    IF group >= Len(groups) THEN blocks
    ELSE InsideGroups(
            [b \in 1..Len(blocks) |->
                IF /\ b - 1 >= At(groups, group).blockStart
                   /\ b - 1 <= At(groups, group).blockEnd
                   /\ blocks[b].group = None
                THEN [blocks[b] EXCEPT !.group = group,
                                       !.fixed = At(groups, group).fixed]
                ELSE blocks[b]],
            groups, group + 1)

\* setInsGroups, "Add remaining '+' blocks to new groups".  G = [blocks, groups].
RECURSIVE NewGroups(_, _)
NewGroups(G, block) ==
    IF block >= Len(G.blocks) THEN G
    ELSE IF At(G.blocks, block).group # None THEN NewGroups(G, block + 1)
    ELSE LET b == At(G.blocks, block) IN
         NewGroups([blocks |-> [G.blocks EXCEPT ![block + 1].group = Len(G.groups)],
                    groups |-> Append(G.groups,
                                      Group(b.oldNumber, block, block, b.unique,
                                            b.words, b.words, b.chars, b.fixed))],
                   block + 1)

setInsGroups(blocks, groups) ==
    NewGroups([blocks |-> InsideGroups(blocks, groups, 0), groups |-> groups], 0)

\* insertMarks, "Find closest fixed block to the left": a position of blocksOld,
\* None when there is none.
RECURSIVE FixedLeft(_, _, _)
FixedLeft(blocks, order, fixed) ==
    IF fixed < 0 THEN None
    ELSE IF blocks[At(order, fixed)].type = "=" /\ blocks[At(order, fixed)].fixed
         THEN fixed
         ELSE FixedLeft(blocks, order, fixed - 1)

\* insertMarks, the reference block of a moved group: a position of blocksOld,
\* None for "No smaller fixed block".
MarkRefBlock(blocks, order, lookupSorted, movedGroup) ==
    LET first == At(lookupSorted, movedGroup.blockStart)
        last == At(lookupSorted, movedGroup.blockEnd)
        hasPrev == first > 0
        prevBlock == blocks[At(order, first - 1)]
        hasNext == last < Len(order) - 1
        nextBlock == blocks[At(order, last + 1)]
    IN  IF hasPrev /\ prevBlock.type = "=" /\ prevBlock.fixed THEN first - 1
        ELSE IF hasNext /\ nextBlock.type = "=" /\ nextBlock.fixed THEN last + 1
        ELSE FixedLeft(blocks, order, first - 1)

\* insertMarks, the cycle through the groups.  M = [blocks, groups, color];
\* order and lookupSorted are those of the blocks before the marks, count is
\* the number of groups before the marks.
RECURSIVE MarksFrom(_, _, _, _, _)
MarksFrom(M, order, lookupSorted, moved, count) ==
    IF moved >= count THEN M
    ELSE LET movedGroup == At(M.groups, moved) IN
         IF movedGroup.fixed \/ movedGroup.oldNumber = None
         THEN MarksFrom(M, order, lookupSorted, moved + 1, count)
         ELSE LET ref == MarkRefBlock(M.blocks, order, lookupSorted, movedGroup)
                  refBlock == M.blocks[At(order, ref)]
                  newNumber == IF ref = None THEN -1 ELSE refBlock.newNumber
                  markGroup == IF ref = None THEN Len(M.groups) ELSE refBlock.group
                  groups1 == IF ref = None
                             THEN Append(M.groups,
                                         Group(None, Len(M.blocks), Len(M.blocks),
                                               FALSE, None, 0, 0, FALSE))
                             ELSE M.groups
              IN  MarksFrom(
                     [blocks |-> Append(M.blocks,
                                        \* unique is None on a mark, and never read
                                        Block(None, None, movedGroup.oldNumber,
                                              newNumber, None, None, FALSE, 0, 0,
                                              "|", None, markGroup, TRUE, moved,
                                              <<>>)),
                      groups |-> [groups1 EXCEPT ![moved + 1].color = M.color,
                                                 ![moved + 1].movedFrom = markGroup],
                      color |-> M.color + 1],
                     order, lookupSorted, moved + 1, count)

\* insertMarks: [blocks, groups].
insertMarks(blocks, groups) ==
    LET order == SortOrder([k \in 1..Len(blocks) |->
                              <<int_or_null(blocks[k].oldNumber),
                                int_or_null(blocks[k].newNumber)>>])
        inv == Inverse(order)
        lookupSorted == [k \in 1..Len(blocks) |-> inv[k] - 1]
        M == MarksFrom([blocks |-> blocks, groups |-> groups, color |-> 1],
                       order, lookupSorted, 0, Len(groups))
    IN  sortBlocks(M.blocks, M.groups)

(***************************************************************************)
(* Fragments.                                                              *)
(***************************************************************************)
Fragment(text, type, color) == [text |-> text, type |-> type, color |-> color]

\* A mark text taken from the first block of the moved group only.
MarkTextFirstBlock(blocks, movedBlock, blockEnd) ==
    IF At(blocks, movedBlock).type \in {"=", "-"}
    THEN At(blocks, movedBlock).text ELSE <<>>

\* getDiffFragments, "Get mark text".
RECURSIVE MarkText(_, _, _)
MarkText(blocks, movedBlock, blockEnd) ==
    IF movedBlock > blockEnd THEN <<>>
    ELSE (IF At(blocks, movedBlock).type \in {"=", "-"}
          THEN At(blocks, movedBlock).text ELSE <<>>)
         \o MarkText(blocks, movedBlock + 1, blockEnd)

\* getDiffFragments, "Cycle through blocks" of the group from blockStart on.
RECURSIVE BlockFragments(_, _, _, _, _, _)
BlockFragments(blocks, groups, block, blockStart, blockEnd, color) ==
    IF block > blockEnd THEN <<>>
    ELSE LET type == At(blocks, block).type
             movedGroup == At(groups, At(blocks, block).moved)
         IN  (IF type \in {"=", "-", "+"}
              THEN <<Fragment(At(blocks, block).text, type, color)>>
              ELSE IF type = "|"
              THEN <<Fragment(MarkText(blocks, movedGroup.blockStart,
                                       movedGroup.blockEnd),
                              IF movedGroup.blockStart < blockStart
                              THEN "<" ELSE ">",
                              movedGroup.color)>>
              ELSE <<>>)
             \o BlockFragments(blocks, groups, block + 1, blockStart, blockEnd, color)

\* getDiffFragments, "Cycle through groups" in the order of groupsSort.
RECURSIVE GroupFragments(_, _, _, _)
GroupFragments(blocks, groups, groupsSort, group) ==
    IF group >= Len(groupsSort) THEN <<>>
    ELSE LET g == At(groupsSort, group)
             color == g.color
         IN  (IF color # 0
              THEN <<Fragment(<<>>,
                              IF g.movedFrom < At(blocks, g.blockStart).group
                              THEN "(<" ELSE "(>",
                              color)>>
              ELSE <<>>)
             \o BlockFragments(blocks, groups, g.blockStart, g.blockStart,
                               g.blockEnd, color)
             \o (IF color # 0 THEN <<Fragment(<<>>, " )", color)>> ELSE <<>>)
             \o GroupFragments(blocks, groups, groupsSort, group + 1)

\* No joining of consecutive fragments.
JoinNothing(fragments, fragment) == fragments

\* getDiffFragments, "join consecutive fragments of same type".
RECURSIVE JoinFragments(_, _)
JoinFragments(fragments, fragment) ==
    IF fragment >= Len(fragments) THEN fragments
    ELSE IF /\ At(fragments, fragment).type = At(fragments, fragment - 1).type
            /\ At(fragments, fragment).color = At(fragments, fragment - 1).color
            /\ At(fragments, fragment).text # <<>>
            /\ At(fragments, fragment - 1).text # <<>>
         THEN JoinFragments(
                [k \in 1..(Len(fragments) - 1) |->
                    IF k < fragment THEN fragments[k]
                    ELSE IF k = fragment
                    THEN [fragments[k] EXCEPT
                            !.text = @ \o At(fragments, fragment).text]
                    ELSE fragments[k + 1]],
                fragment)
         ELSE JoinFragments(fragments, fragment + 1)

getDiffFragments(blocks, groups) ==
    LET order == SortOrder([k \in 1..Len(groups) |-> <<groups[k].blockStart, 0>>])
        groupsSort == Permute(groups, order)
    IN  <<Fragment(<<>>, "{", 0), Fragment(<<>>, "[", 0)>>
        \o JoinFragments(GroupFragments(blocks, groups, groupsSort, 0), 1)
        \o <<Fragment(<<>>, "]", 0), Fragment(<<>>, "}", 0)>>

(***************************************************************************)
(* Clipping.  Positions in a fragment text are the 0-based positions of    *)
(* the code.                                                               *)
(***************************************************************************)
\* regExpMatch.start() of the matches m of finditer.
Starts(m) == [k \in 1..Len(m) |-> m[k][1] - 1]

\* regExpMatch.end() of the matches m of finditer.
Ends(m) == [k \in 1..Len(m) |-> m[k][1] + m[k][2] - 1]

\* lastIndex after a cycle through the matches m.
LastIndex(m) == IF m = <<>> THEN 0 ELSE Ends(m)[Len(m)]

\* "Get line positions including start and end" and "Get paragraph positions
\* including start and end": the starts of the matches m in a text of n
\* characters, with 0 in front and n at the end.
Positions(m, n) ==
    (IF m = <<>> \/ Starts(m)[1] # 0 THEN <<0>> ELSE <<>>)
    \o Starts(m)
    \o (IF LastIndex(m) # n THEN <<n>> ELSE <<>>)

\* A range to keep: its clip position and its type.
Range(pos, type) == [pos |-> pos, type |-> type]

\* The first range of cands that is not None.
FirstRange(cands) ==
    cands[FirstFrom([k \in 1..Len(cands) |-> cands[k].pos # None], 1, Len(cands))]

\* "Find first paragraph from left", "Find first line break from left"
RECURSIVE ScanLeft(_, _, _, _, _)
ScanLeft(list, j, max, min, rangeLeftMax) ==
    IF j > Len(list) THEN None
    ELSE IF list[j] > max \/ list[j] > rangeLeftMax THEN None
    ELSE IF list[j] > min THEN list[j]
    ELSE ScanLeft(list, j + 1, max, min, rangeLeftMax)

\* clipBlank.search(text, pos): the start of the first match from pos on.
RECURSIVE SearchBlank(_, _)
SearchBlank(text, pos) ==
    IF pos >= Len(text) THEN None
    ELSE IF MatchClipBlank(text, pos + 1) > 0 THEN pos
    ELSE SearchBlank(text, pos + 1)

\* "Find first blank from left"
BlankLeft(start, c, rangeLeftMax) ==
    IF start # None /\ start < c.clipBlankLeftMax /\ start < rangeLeftMax
    THEN start ELSE None

\* "Maximum lines to search from left"
RangeLeftMax(text, lines, c) ==
    IF c.clipLinesLeftMax < Len(lines) THEN At(lines, c.clipLinesLeftMax)
    ELSE Len(text)

\* "Find clip pos from left", given rangeLeftMax.
RangeLeftWithin(text, lines, headingsEnd, paragraphs, c, rangeLeftMax) ==
    FirstRange(<<
        Range(IF /\ headingsEnd # <<>>
                 /\ ~(\/ headingsEnd[1] > c.clipHeadingLeft
                      \/ headingsEnd[1] > rangeLeftMax)
              THEN headingsEnd[1] ELSE None, "heading"),
        Range(ScanLeft(paragraphs, 1, c.clipParagraphLeftMax,
                       c.clipParagraphLeftMin, rangeLeftMax), "paragraph"),
        Range(ScanLeft(lines, 1, c.clipLineLeftMax, c.clipLineLeftMin,
                       rangeLeftMax), "line"),
        Range(BlankLeft(SearchBlank(text, c.clipBlankLeftMin), c, rangeLeftMax),
              "blank"),
        Range(IF c.clipCharsLeft < rangeLeftMax THEN c.clipCharsLeft ELSE None,
              "chars"),
        Range(rangeLeftMax, "fixed") >>)

RangeLeft(text, lines, headingsEnd, paragraphs, c) ==
    RangeLeftWithin(text, lines, headingsEnd, paragraphs, c,
                    RangeLeftMax(text, lines, c))

\* "Find last paragraph from right", "Find last line break from right"
RECURSIVE ScanRight(_, _, _, _, _)
ScanRight(list, j, max, min, rangeRightMin) ==
    IF j < 1 THEN None
    ELSE IF list[j] < max \/ list[j] < rangeRightMin THEN None
    ELSE IF list[j] < min THEN list[j]
    ELSE ScanRight(list, j - 1, max, min, rangeRightMin)

\* "Find last blank from right": the cycle through the matches m from k on.
RECURSIVE BlankRight(_, _, _, _)
BlankRight(m, k, lastPos, limit) ==
    IF k > Len(m) THEN None
    ELSE IF m[k][1] - 1 > limit THEN lastPos
    ELSE BlankRight(m, k + 1, m[k][1] - 1, limit)

\* "Maximum lines to search from right"
RangeRightMin(lines, c) ==
    IF Len(lines) >= c.clipLinesRightMax
    THEN At(lines, Len(lines) - c.clipLinesRightMax) ELSE 0

\* "Find clip pos from right", given rangeRightMin.
RangeRightWithin(text, lines, headings, paragraphs, c, rangeRightMin) ==
    FirstRange(<<
        Range(IF /\ headings # <<>>
                 /\ ~(\/ headings[Len(headings)] < Len(text) - c.clipHeadingRight
                      \/ headings[Len(headings)] < rangeRightMin)
              THEN headings[Len(headings)] ELSE None, "heading"),
        Range(ScanRight(paragraphs, Len(paragraphs),
                        Len(text) - c.clipParagraphRightMax,
                        Len(text) - c.clipParagraphRightMin, rangeRightMin),
              "paragraph"),
        Range(ScanRight(lines, Len(lines), Len(text) - c.clipLineRightMax,
                        Len(text) - c.clipLineRightMin, rangeRightMin), "line"),
        Range(BlankRight(FindIter("clipBlank", text,
                                  1 + (IF Len(text) - c.clipBlankRightMax < rangeRightMin
                                       THEN rangeRightMin
                                       ELSE Len(text) - c.clipBlankRightMax)),
                         1, None, Len(text) - c.clipBlankRightMin), "blank"),
        Range(IF Len(text) - c.clipCharsRight > rangeRightMin
              THEN Len(text) - c.clipCharsRight ELSE None, "chars"),
        Range(rangeRightMin, "fixed") >>)

RangeRight(text, lines, headings, paragraphs, c) ==
    RangeRightWithin(text, lines, headings, paragraphs, c, RangeRightMin(lines, c))

\* "Skip if lines too close": skipLines after the cycle through the lines.
RECURSIVE SkipLines(_, _, _, _, _, _)
SkipLines(lines, j, rangeLeft, rangeRight, skipLines, clipSkipLines) ==
    IF j > Len(lines) THEN skipLines
    ELSE IF lines[j] > rangeRight \/ skipLines > clipSkipLines THEN skipLines
    ELSE SkipLines(lines, j + 1, rangeLeft, rangeRight,
                   IF lines[j] > rangeLeft THEN skipLines + 1 ELSE skipLines,
                   clipSkipLines)

\* "Check if we skip clipping if ranges are close together"
TooClose(lines, rangeLeft, rangeRight, c) ==
    /\ rangeLeft # None /\ rangeRight # None
    /\ \/ rangeLeft > rangeRight
       \/ rangeRight - rangeLeft < c.clipSkipChars
       \/ SkipLines(lines, 1, rangeLeft, rangeRight, 0, c.clipSkipLines)
            < c.clipSkipLines

\* sub("", text) of clipTrimNewLinesLeft and clipTrimBlanksLeft: text without
\* its trailing run of characters of class S.
RECURSIVE TrimLeft(_, _)
TrimLeft(text, S) ==
    IF text # <<>> /\ text[Len(text)] \in S
    THEN TrimLeft(SubSeq(text, 1, Len(text) - 1), S) ELSE text

\* sub("", text) of clipTrimNewLinesRight and clipTrimBlanksRight.
RECURSIVE TrimRight(_, _)
TrimRight(text, S) ==
    IF text # <<>> /\ text[1] \in S THEN TrimRight(Tail(text), S) ELSE text

\* "Split left text" and "Add left text to fragments list"
LeftFragments(text, L) ==
    IF L.pos = None THEN <<>>
    ELSE IF L.type = "chars"
    THEN <<Fragment(TrimLeft(SubSeq(text, 1, L.pos), Blanks \cup NewLines), "=", 0),
           Fragment(<<>>, "~", 0)>>
    ELSE IF L.type = "blank"
    THEN <<Fragment(TrimLeft(SubSeq(text, 1, L.pos), Blanks \cup NewLines), "=", 0),
           Fragment(<<>>, " ~", 0)>>
    ELSE <<Fragment(TrimLeft(SubSeq(text, 1, L.pos), NewLines), "=", 0)>>

\* "Split right text" and "Add right text to fragments list"
RightFragments(text, R) ==
    IF R.pos = None THEN <<>>
    ELSE IF R.type = "chars"
    THEN <<Fragment(<<>>, "~", 0),
           Fragment(TrimRight(SubSeq(text, R.pos + 1, Len(text)),
                              Blanks \cup NewLines), "=", 0)>>
    ELSE IF R.type = "blank"
    THEN <<Fragment(<<>>, "~ ", 0),
           Fragment(TrimRight(SubSeq(text, R.pos + 1, Len(text)),
                              Blanks \cup NewLines), "=", 0)>>
    ELSE <<Fragment(TrimRight(SubSeq(text, R.pos + 1, Len(text)), NewLines),
                    "=", 0)>>

\* The fragments that replace the clipped one without the container and
\* separator between the left and the right text.
ClippedJoined(text, lines, L, R, c) ==
    IF TooClose(lines, L.pos, R.pos, c) \/ (L.pos = None /\ R.pos = None)
    THEN <<>>
    ELSE LeftFragments(text, L) \o RightFragments(text, R)

\* "Remove split element", "Add fragment container and separator to list":
\* the fragments that replace the clipped one, <<>> when clipping is skipped.
Clipped(text, lines, L, R, c) ==
    IF TooClose(lines, L.pos, R.pos, c) \/ (L.pos = None /\ R.pos = None)
    THEN <<>>
    ELSE LeftFragments(text, L)
         \o (IF L.pos # None /\ R.pos # None
             THEN <<Fragment(<<>>, "]", 0), Fragment(<<>>, ",", 0),
                    Fragment(<<>>, "[", 0)>>
             ELSE <<>>)
         \o RightFragments(text, R)

\* One fragment long enough for clipping, with its line positions.
ClipText(frs, fragment, text, lines, c) ==
    Clipped(text, lines,
            IF fragment # 2
            THEN RangeLeft(text, lines, Ends(FindIter("clipHeading", text, 1)),
                           Positions(FindIter("clipParagraph", text, 1), Len(text)),
                           c)
            ELSE Range(None, ""),
            IF fragment # Len(frs) - 3
            THEN RangeRight(text, lines, Starts(FindIter("clipHeading", text, 1)),
                            Positions(FindIter("clipParagraph", text, 1), Len(text)),
                            c)
            ELSE Range(None, ""),
            c)

\* "Min length for clipping right"
MinRight(c) ==
    Min(Min(Min(Min(c.clipHeadingRight, c.clipParagraphRightMin),
                c.clipLineRightMin), c.clipBlankRightMin), c.clipCharsRight)

\* "Min length for clipping left"
MinLeft(c) ==
    Min(Min(Min(Min(c.clipHeadingLeft, c.clipParagraphLeftMin),
                c.clipLineLeftMin), c.clipBlankLeftMin), c.clipCharsLeft)

\* "Skip if not an unmoved and unchanged block", "Skip if too short for
\* clipping"
SkipClip(fr, c) ==
    \/ fr.type # "=" \/ fr.color # 0
    \/ (Len(fr.text) < MinRight(c) /\ Len(fr.text) < MinLeft(c))

\* clipDiffFragments, the cycle through the fragments from fragment on.
\* F = [frs, raised]; lines[0] raises IndexError when the text has no line
\* break.
RECURSIVE ClipFrom(_, _, _)
ClipFrom(F, fragment, c) ==
    IF fragment >= Len(F.frs) THEN F
    ELSE IF SkipClip(At(F.frs, fragment), c) THEN ClipFrom(F, fragment + 1, c)
    ELSE IF FindIter("clipLine", At(F.frs, fragment).text, 1) = <<>>
    THEN [F EXCEPT !.raised = "IndexError"]
    ELSE LET Replaced(new) ==
                 IF new = <<>> THEN ClipFrom(F, fragment + 1, c)
                 ELSE ClipFrom([F EXCEPT !.frs = SubSeq(F.frs, 1, fragment) \o new
                                           \o SubSeq(F.frs, fragment + 2, Len(F.frs))],
                               fragment + Len(new) + 1, c)
         IN  Replaced(ClipText(F.frs, fragment, At(F.frs, fragment).text,
                               Positions(FindIter("clipLine",
                                                  At(F.frs, fragment).text, 1),
                                         Len(At(F.frs, fragment).text)),
                               c))

\* clipDiffFragments: "Skip if only one fragment in containers, no change".
clipDiffFragments(frs, c) ==
    IF Len(frs) = 5 THEN [frs |-> frs, raised |-> ""]
    ELSE ClipFrom([frs |-> frs, raised |-> ""], 0, c)

(***************************************************************************)
(* The engine: one WikEdDiff object, one call of diff(oldString, newString).*)
(***************************************************************************)
VARIABLES
    oldString,    \* argument of diff
    newString,    \* argument of diff
    config,       \* self.config
    pc,           \* the statement of diff() to run next
    stack,        \* the calls of calculateDiff in progress, innermost last
    newText,      \* self.newText
    oldText,      \* self.oldText
    symbols,      \* self.symbols
    bordersDown,  \* self.bordersDown
    bordersUp,    \* self.bordersUp
    blocks,       \* self.blocks
    groups,       \* self.groups
    sections,     \* self.sections
    maxWords,     \* self.maxWords
    unlinkCount,  \* unlinkCount of detectBlocks
    fragments,    \* fragments of diff(), its return value
    error,        \* self.error
    raised        \* the exception that ended diff(), "" when there is none

vars == <<oldString, newString, config, pc, stack, newText, oldText, symbols,
          bordersDown, bordersUp, blocks, groups, sections, maxWords,
          unlinkCount, fragments, error, raised>>

textVars == <<newText, oldText>>
tableVars == <<symbols, bordersDown, bordersUp>>
blockVars == <<blocks, groups, sections, maxWords, unlinkCount>>
inputVars == <<oldString, newString, config>>

\* The defaults of WikEdDiffConfig that the engine reads.
DefaultConfig ==
    [fullDiff |-> FALSE, charDiff |-> TRUE, repeatedDiff |-> TRUE,
     recursiveDiff |-> TRUE, recursionMax |-> 10, unlinkBlocks |-> TRUE,
     unlinkMax |-> 5, blockMinLength |-> 3, stripTrailingNewline |-> TRUE,
     unitTesting |-> FALSE,
     clipHeadingLeft |-> 1500, clipParagraphLeftMax |-> 1500,
     clipParagraphLeftMin |-> 500, clipLineLeftMax |-> 1000,
     clipLineLeftMin |-> 500, clipBlankLeftMax |-> 1000,
     clipBlankLeftMin |-> 500, clipCharsLeft |-> 500,
     clipHeadingRight |-> 1500, clipParagraphRightMax |-> 1500,
     clipParagraphRightMin |-> 500, clipLineRightMax |-> 1000,
     clipLineRightMin |-> 500, clipBlankRightMax |-> 1000,
     clipBlankRightMin |-> 500, clipCharsRight |-> 500,
     clipLinesRightMax |-> 10, clipLinesLeftMax |-> 10,
     clipSkipLines |-> 5, clipSkipChars |-> 1000]

\* A configuration that clips short texts: the clip positions are searched
\* within a few characters and lines of either end.
ClipConfig ==
    [DefaultConfig EXCEPT
     !.clipHeadingLeft = 3, !.clipParagraphLeftMax = 3,
     !.clipParagraphLeftMin = 1, !.clipLineLeftMax = 2,
     !.clipLineLeftMin = 1, !.clipBlankLeftMax = 2,
     !.clipBlankLeftMin = 1, !.clipCharsLeft = 1,
     !.clipHeadingRight = 3, !.clipParagraphRightMax = 3,
     !.clipParagraphRightMin = 1, !.clipLineRightMax = 2,
     !.clipLineRightMin = 1, !.clipBlankRightMax = 2,
     !.clipBlankRightMin = 1, !.clipCharsRight = 1,
     !.clipLinesRightMax = 2, !.clipLinesLeftMax = 2,
     !.clipSkipLines = 1, !.clipSkipChars = 1]

\* Longest text of the exhaustive part of the inputs.
MaxLen == 2

\* The characters of the exhaustive part of the inputs.
Chars == {"a", "b", " "}

\* Every text over Chars of length up to MaxLen.
Texts == UNION {[1..n -> Chars] : n \in 0..MaxLen}

\* Pairs <<oldString, newString>> of longer texts: moved words, a word that
\* got separators, trailing newlines, repeated words, sentences, blocks that
\* are unlinked, deletions that meet at one place, lines that are clipped,
\* deletions next to blocks that are not fixed, a word with an apostrophe,
\* a deletion in front of a mark without a reference block.
Scenarios ==
    { <<<<"a", " ", "b">>, <<" ", "b", " ", "a", " ">>>>,
      <<<<"c", "a", "t">>, <<"c", "-", "a", "-", "t">>>>,
      <<<<"a", "b">>, <<"a", "-", "b">>>>,
      <<<<"a", "b", " ", "c">>, <<"a", "-", "b", " ", "c">>>>,
      <<<<"a", "\n">>, <<"a", "\n">>>>,
      <<<<"a", "\n">>, <<"b", "\n">>>>,
      <<<<"a", " ", "b", " ", "c">>, <<"c", " ", "b", " ", "a">>>>,
      <<<<"a", " ", "b", " ", "c", " ", "t">>, <<"b", " ", "a", " ", "t", " ", "c">>>>,
      <<<<"a", " ", "b", " ", "c", " ", "t">>, <<"a", " ", "b", " ", "c">>>>,
      <<<<"a", " ", "b", ".", "c", "-", "t">>, <<"a", " ", ".", "b", "-", "t", "c">>>>,
      <<<<"a", " ", "b", " ", "c", " ", "t">>, <<"b", " ", "t", " ", "a", " ", "c">>>>,
      <<<<"a", " ", "b", " ", "c", " ", "t">>, <<"t", " ", "a", " ", "c", " ", "b">>>>,
      <<<<"a", " ", "b", " ", "c", " ", "t">>, <<"t", " ", "a", " ", "b", " ", "c">>>>,
      <<<<"a", " ", "a", " ", "b">>, <<"a", " ", "b", " ", "a">>>>,
      <<<<"a", ".", " ", "b", ".">>, <<"b", ".", " ", "a", ".">>>>,
      <<<<"a", "\n", "b", "\n", "c">>, <<"a", "\n", "c", "\n", "b">>>>,
      <<<<"a", "b", "c">>, <<"a", "t", "c">>>>,
      <<<<"a", " ", "b", " ", "c", " ", "t", "t", "'">>, <<"a", " ", "b", " ", "c", " ", "b", "t", "'">>>>,
      <<<<"-", "-", "t", ".", "b", ".", " ">>, <<"b", ".", " ", "-", "t">>>>,
      <<<<".", "-", "t", ".">>, <<"t", "-", " ">>>>,
      <<<<" ", "a", " ", "c", "-", "t">>, <<" ", "-", " ", "a", " ">>>>,
      <<<<"a", " ", "a", " ", "a", " ", "b">>, <<"a", " ", "a", " ", "b", " ", "a">>>>,
      <<<<"a", "b", " ", "-", "t">>, <<"c", "-", "a", "b">>>>,
      <<<<"a", " ", "-">>, <<"-", "a", "-", ".">>>>,
      <<<<"a", "\n", "b", " ", "t">>, <<"a", "\n", "b", " ", "c">>>>,
      <<<<"t", " ", "a", "\n", "b">>, <<"c", " ", "a", "\n", "b">>>>,
      <<<<"a", "b", "c", ".", "t">>, <<"a", "b", "t", ".", "c">>>>,
      <<<<"\n", "a", ".", "\n", "a", "\n", "b">>, <<"\n", "a">>>>,
      <<<<"-", "b", "-", " ">>, <<"b", ".", "-", "c">>>>,
      <<<<"a", ".", " ", "b">>, <<"b", ".">>>>,
      <<<<"t", " ", "a", "\n", "b", "\n", "c", "\n", "t">>,
        <<"c", " ", "a", "\n", "b", "\n", "c", "\n", "a">>>> }

Inputs == (Texts \X Texts) \cup Scenarios

\* The configurations: the defaults, the full diff, the full diff with unit
\* tests, the full diff with a single unlink cycle, the full diff with a
\* single level of recursion, the clipping of short texts.
Configs ==
    { DefaultConfig,
      [DefaultConfig EXCEPT !.fullDiff = TRUE],
      [DefaultConfig EXCEPT !.fullDiff = TRUE, !.unitTesting = TRUE],
      [DefaultConfig EXCEPT !.fullDiff = TRUE, !.unlinkMax = 1],
      [DefaultConfig EXCEPT !.fullDiff = TRUE, !.recursionMax = 1],
      ClipConfig }

\* WikEdDiff.__init__: the object before the call of diff.
Constructed ==
    /\ pc = "diff"
    /\ stack = <<>>
    /\ newText = None
    /\ oldText = None
    /\ symbols = EmptySymbols
    /\ bordersDown = <<>>
    /\ bordersUp = <<>>
    /\ blocks = <<>>
    /\ groups = <<>>
    /\ sections = <<>>
    /\ maxWords = 0
    /\ unlinkCount = 0
    /\ fragments = <<>>
    /\ error = FALSE
    /\ raised = ""

\* A constructed object and the arguments of the call of diff.
Init ==
    /\ \E input \in Inputs : oldString = input[1] /\ newString = input[2]
    /\ config \in Configs
    /\ Constructed

\* One call of calculateDiff: its arguments, the statement it is at, its
\* local borders and the position of its recursion loops.
Frame(level, recurse, repeating, newStart, oldStart, up, recursionLevel) ==
    [level |-> level, recurse |-> recurse, repeating |-> repeating,
     newStart |-> newStart, oldStart |-> oldStart, up |-> up,
     recursionLevel |-> recursionLevel, phase |-> "pass3",
     bordersDown |-> <<>>, bordersUp |-> <<>>,
     bordersDownNext |-> <<>>, bordersUpNext |-> <<>>, border |-> 0]

\* The innermost call of calculateDiff.
Top == stack[Len(stack)]

\* The call works on the symbol table and the borders of the object.
Full(f) == f.recursionLevel = 0 /\ ~f.repeating

Pop == SubSeq(stack, 1, Len(stack) - 1)

SetTop(f) == [stack EXCEPT ![Len(stack)] = f]

\* self.calculateDiff(level, recurse) as diff() calls it, on the texts N, O.
Call(level, recurse, N, O) ==
    <<Frame(level, recurse, FALSE, N.first, O.first, FALSE, 0)>>

\* string.endswith('\n')
EndsWithNewline(string) == string # <<>> /\ string[Len(string)] = "\n"

\* diff(), "Strip trailing newline (.js only)": the string diff() works on.
StripTrailingNewline(string, other, c) ==
    IF c.stripTrailingNewline /\ EndsWithNewline(string) /\ EndsWithNewline(other)
    THEN SubSeq(string, 1, Len(string) - 1)
    ELSE string

\* A stream of containers without the empty '=' fragment.
NoChangeEmpty ==
    <<Fragment(<<>>, "{", 0), Fragment(<<>>, "[", 0),
      Fragment(<<>>, "]", 0), Fragment(<<>>, "}", 0)>>

\* diff(), "Trap trivial changes: no change": the stream it returns.
NoChange ==
    <<Fragment(<<>>, "{", 0), Fragment(<<>>, "[", 0), Fragment(<<>>, "=", 0),
      Fragment(<<>>, "]", 0), Fragment(<<>>, "}", 0)>>

\* diff(): reset the error flag, strip the trailing newline, load the texts,
\* trap the trivial change.
Diff ==
    /\ pc = "diff"
    /\ \E new \in {StripTrailingNewline(newString, oldString, config)},
          old \in {StripTrailingNewline(oldString, newString, config)} :
           /\ newText' = WikEdDiffText(new)
           /\ oldText' = WikEdDiffText(old)
           /\ IF new = old
              THEN /\ fragments' = NoChange
                   /\ pc' = "done"
              ELSE /\ fragments' = fragments
                   /\ pc' = "paragraph"
    /\ error' = FALSE
    /\ UNCHANGED <<inputVars, stack, tableVars, blockVars, raised>>

\* The next call of diff() on the same object, with other arguments: what
\* Diff does, on the fields as the call before left them.  Only the locals
\* of the new call (fragments, unlinkCount, the exception) start afresh.
DiffAgain ==
    /\ pc = "done"
    /\ \E input \in Inputs :
       \E new \in {StripTrailingNewline(input[2], input[1], config)},
          old \in {StripTrailingNewline(input[1], input[2], config)} :
           /\ oldString' = input[1]
           /\ newString' = input[2]
           /\ newText' = WikEdDiffText(new)
           /\ oldText' = WikEdDiffText(old)
           /\ IF new = old
              THEN /\ fragments' = NoChange
                   /\ pc' = "done"
              ELSE /\ fragments' = <<>>
                   /\ pc' = "paragraph"
    /\ error' = FALSE
    /\ raised' = ""
    /\ unlinkCount' = 0
    /\ UNCHANGED <<config, stack, tableVars, blocks, groups, sections, maxWords>>

\* diff(): split into paragraphs and calculate the diff.
SplitParagraph ==
    /\ pc = "paragraph"
    /\ \E N \in {splitText(newText, "paragraph", None)},
          O \in {splitText(oldText, "paragraph", None)} :
           /\ newText' = N
           /\ oldText' = O
           /\ stack' = Call("line", FALSE, N, O)
    /\ pc' = "line"
    /\ UNCHANGED <<inputVars, tableVars, blockVars, fragments, error, raised>>

\* The statement after the refinement to a level.
AfterLevel(level) ==
    CASE level = "line" -> "sentence"
      [] level = "sentence" -> "chunk"
      [] level = "chunk" -> "word"
      [] level = "word" -> "wordSlide"

\* diff(): refine into lines, sentences, chunks, words and calculate the
\* refined diff; with recursion at word level.
SplitRefine ==
    /\ pc \in {"line", "sentence", "chunk", "word"}
    /\ stack = <<>>
    /\ \E N \in {splitRefine(newText, pc)}, O \in {splitRefine(oldText, pc)} :
           /\ newText' = N
           /\ oldText' = O
           /\ stack' = Call(pc, pc = "word", N, O)
    /\ pc' = AfterLevel(pc)
    /\ UNCHANGED <<inputVars, tableVars, blockVars, fragments, error, raised>>

\* calculateDiff, passes 1 to 3: parse both texts into the symbol table and
\* connect the unique tokens; return when nothing has ever been linked.
Pass3Step ==
    /\ stack # <<>>
    /\ Top.phase = "pass3"
    /\ \E f \in {Top} :
       \E s0 \in {IF Full(f) THEN symbols ELSE EmptySymbols} :
       \E s2 \in {Pass2(oldText.tokens,
                        Pass1(newText.tokens, s0.token, f.newStart, f.up,
                              f.recursionLevel),
                        f.oldStart, f.up, f.recursionLevel)} :
       \E p3 \in {Pass3([n |-> newText.tokens, o |-> oldText.tokens,
                         linked |-> s0.linked,
                         down |-> IF Full(f) THEN bordersDown ELSE <<>>,
                         up |-> IF Full(f) THEN bordersUp ELSE <<>>],
                        s2, 1,
                        [level |-> f.level, recursionLevel |-> f.recursionLevel,
                         newWords |-> newText.words, oldWords |-> oldText.words,
                         blockMinLength |-> config.blockMinLength])} :
           /\ newText' = [newText EXCEPT !.tokens = p3.n]
           /\ oldText' = [oldText EXCEPT !.tokens = p3.o]
           /\ symbols' = IF Full(f) THEN [token |-> s2, linked |-> p3.linked]
                         ELSE symbols
           /\ bordersDown' = IF Full(f) THEN p3.down ELSE bordersDown
           /\ bordersUp' = IF Full(f) THEN p3.up ELSE bordersUp
           /\ stack' = IF p3.linked
                       THEN SetTop([f EXCEPT !.phase = "pass4",
                                             !.bordersDown = p3.down,
                                             !.bordersUp = p3.up])
                       ELSE Pop
    /\ UNCHANGED <<inputVars, pc, blockVars, fragments, error, raised>>

\* calculateDiff, pass 4: connect adjacent identical tokens downwards.
Pass4Step ==
    /\ stack # <<>>
    /\ Top.phase = "pass4"
    /\ \E f \in {Top} :
       \E p4 \in {Pass45([n |-> newText.tokens, o |-> oldText.tokens,
                          next |-> f.bordersDownNext], f.bordersDown, 1, FALSE)} :
           /\ newText' = [newText EXCEPT !.tokens = p4.n]
           /\ oldText' = [oldText EXCEPT !.tokens = p4.o]
           /\ stack' = SetTop([f EXCEPT !.phase = "pass5",
                                        !.bordersDownNext = p4.next])
    /\ UNCHANGED <<inputVars, pc, tableVars, blockVars, fragments, error, raised>>

\* calculateDiff, pass 5: connect adjacent identical tokens upwards.
Pass5Step ==
    /\ stack # <<>>
    /\ Top.phase = "pass5"
    /\ \E f \in {Top} :
       \E p5 \in {Pass45([n |-> newText.tokens, o |-> oldText.tokens,
                          next |-> f.bordersUpNext], f.bordersUp, 1, TRUE)} :
           /\ newText' = [newText EXCEPT !.tokens = p5.n]
           /\ oldText' = [oldText EXCEPT !.tokens = p5.o]
           /\ stack' = SetTop([f EXCEPT !.phase = IF Full(f) THEN "start" ELSE "save",
                                        !.bordersUpNext = p5.next])
    /\ UNCHANGED <<inputVars, pc, tableVars, blockVars, fragments, error, raised>>

\* calculateDiff, full text diff only: connect adjacent identical tokens
\* downwards from the text start.
FromStart ==
    /\ stack # <<>>
    /\ Top.phase = "start"
    /\ \E f \in {Top} :
       \E d \in {FromBoundary([n |-> newText.tokens, o |-> oldText.tokens,
                               next |-> f.bordersDownNext],
                              newText.first, oldText.first, FALSE)} :
           /\ newText' = [newText EXCEPT !.tokens = d.n]
           /\ oldText' = [oldText EXCEPT !.tokens = d.o]
           /\ stack' = SetTop([f EXCEPT !.phase = "end", !.bordersDownNext = d.next])
    /\ UNCHANGED <<inputVars, pc, tableVars, blockVars, fragments, error, raised>>

\* calculateDiff, full text diff only: connect upwards from the text end.
FromEnd ==
    /\ stack # <<>>
    /\ Top.phase = "end"
    /\ \E f \in {Top} :
       \E u \in {FromBoundary([n |-> newText.tokens, o |-> oldText.tokens,
                               next |-> f.bordersUpNext],
                              newText.last, oldText.last, TRUE)} :
           /\ newText' = [newText EXCEPT !.tokens = u.n]
           /\ oldText' = [oldText EXCEPT !.tokens = u.o]
           /\ stack' = SetTop([f EXCEPT !.phase = "save", !.bordersUpNext = u.next])
    /\ UNCHANGED <<inputVars, pc, tableVars, blockVars, fragments, error, raised>>

\* calculateDiff: save (full text diff) or merge the updated borders into the
\* object, then repeat once with an empty symbol table.
SaveBorders ==
    /\ stack # <<>>
    /\ Top.phase = "save"
    /\ LET f == Top
           g == [f EXCEPT !.phase = "down", !.border = 0]
       IN  /\ bordersDown' = IF Full(f) THEN f.bordersDownNext
                             ELSE bordersDown \o f.bordersDownNext
           /\ bordersUp' = IF Full(f) THEN f.bordersUpNext
                           ELSE bordersUp \o f.bordersUpNext
           /\ stack' = IF ~f.repeating /\ config.repeatedDiff
                       THEN Append(SetTop(g),
                                   Frame(f.level, f.recurse, TRUE, f.newStart,
                                         f.oldStart, f.up, f.recursionLevel))
                       ELSE SetTop(g)
    /\ UNCHANGED <<inputVars, pc, textVars, symbols, blockVars, fragments,
                   error, raised>>

\* bordersDownNext (bordersUpNext) of a call.  After the save of a full text
\* diff it is the list self.bordersDown (self.bordersUp) itself, which the
\* calls below extend in place.
BordersNext(f, up) ==
    IF Full(f) THEN (IF up THEN bordersUp ELSE bordersDown)
    ELSE (IF up THEN f.bordersUpNext ELSE f.bordersDownNext)

\* The first gap token pair beyond border k of list, None when the gap is
\* closed on either side.
GapPair(list, k, up) ==
    LET i0 == At(list, k)[1]
        j0 == At(list, k)[2]
        i == IF up THEN At(newText.tokens, i0).prev ELSE At(newText.tokens, i0).next
        j == IF up THEN At(oldText.tokens, j0).prev ELSE At(oldText.tokens, j0).next
    IN  IF /\ i # None /\ j # None
           /\ At(newText.tokens, i).link = None
           /\ At(oldText.tokens, j).link = None
        THEN <<i, j>> ELSE <<None, None>>

\* The first border from k on whose gap starts a recursion, Len(list) when
\* there is none.
RECURSIVE NextGap(_, _, _)
NextGap(list, k, up) ==
    IF k >= Len(list) THEN k
    ELSE IF GapPair(list, k, up)[1] # None THEN k
    ELSE NextGap(list, k + 1, up)

\* The recursion loops without the limit of recursionMax.
RecurseUnbounded ==
    /\ stack # <<>>
    /\ Top.phase \in {"down", "up"}
    /\ \E f \in {Top} :
       \E up \in {f.phase = "up"} :
       \E list \in {BordersNext(f, up)} :
       \E k \in {NextGap(list, f.border, up)} :
           IF ~(f.recurse /\ config.recursiveDiff)
           THEN stack' = Pop
           ELSE IF k < Len(list)
           THEN stack' = Append(SetTop([f EXCEPT !.border = k + 1]),
                                Frame(f.level, f.recurse, FALSE,
                                      GapPair(list, k, up)[1],
                                      GapPair(list, k, up)[2],
                                      up, f.recursionLevel + 1))
           ELSE IF ~up
           THEN stack' = SetTop([f EXCEPT !.phase = "up", !.border = 0])
           ELSE stack' = Pop
    /\ UNCHANGED <<inputVars, pc, textVars, tableVars, blockVars, fragments,
                   error, raised>>

\* calculateDiff: the next recursion into a gap downwards, then upwards;
\* return after the last border or when the call does not recurse.
Recurse ==
    /\ stack # <<>>
    /\ Top.phase \in {"down", "up"}
    /\ \E f \in {Top} :
       \E up \in {f.phase = "up"} :
       \E list \in {BordersNext(f, up)} :
       \E k \in {NextGap(list, f.border, up)} :
           IF ~(/\ f.recurse /\ config.recursiveDiff
                /\ f.recursionLevel < config.recursionMax)
           THEN stack' = Pop
           ELSE IF k < Len(list)
           THEN stack' = Append(SetTop([f EXCEPT !.border = k + 1]),
                                Frame(f.level, f.recurse, FALSE,
                                      GapPair(list, k, up)[1],
                                      GapPair(list, k, up)[2],
                                      up, f.recursionLevel + 1))
           ELSE IF ~up
           THEN stack' = SetTop([f EXCEPT !.phase = "up", !.border = 0])
           ELSE stack' = Pop
    /\ UNCHANGED <<inputVars, pc, textVars, tableVars, blockVars, fragments,
                   error, raised>>

\* diff(): slide the gaps of both texts, after the word level and after the
\* character level.
SlideGaps ==
    /\ pc \in {"wordSlide", "characterSlide"}
    /\ stack = <<>>
    /\ \E S \in {slideBoth(newText, oldText)} :
           /\ newText' = S.newText
           /\ oldText' = S.oldText
    /\ pc' = IF pc = "wordSlide" /\ config.charDiff THEN "character" ELSE "enumerate"
    /\ UNCHANGED <<inputVars, stack, tableVars, blockVars, fragments, error, raised>>

\* diff(): split tokens into chars in the selected gaps and calculate the
\* refined diff with recursion.
SplitRefineChars ==
    /\ pc = "character"
    /\ \E R \in {splitRefineChars(newText, oldText)} :
           /\ newText' = R.newText
           /\ oldText' = R.oldText
           /\ stack' = Call("character", TRUE, R.newText, R.oldText)
    /\ pc' = "characterSlide"
    /\ UNCHANGED <<inputVars, tableVars, blockVars, fragments, error, raised>>

\* words.clear()
EmptyWords == [w \in {} |-> 0]

\* diff(): free memory and enumerate the token lists.
Enumerate ==
    /\ pc = "enumerate"
    /\ symbols' = EmptySymbols
    /\ bordersDown' = <<>>
    /\ bordersUp' = <<>>
    /\ newText' = enumerateTokens([newText EXCEPT !.words = EmptyWords])
    /\ oldText' = enumerateTokens([oldText EXCEPT !.words = EmptyWords])
    /\ pc' = "detectBlocks"
    /\ UNCHANGED <<inputVars, stack, blockVars, fragments, error, raised>>

\* getSameBlocks, getSections, getGroups and setFixed in a row.
Detect(N, O, words) ==
    LET Detected(S, G, F) ==
            [blocks |-> F.blocks, groups |-> F.groups, sections |-> S.sections,
             maxWords |-> G.maxWords]
        Fixed(S, G) == Detected(S, G, setFixed(G.blocks, G.groups, S.sections))
        Grouped(S) == Fixed(S, getGroups(S.blocks, words))
    IN  Grouped(getSections(getSameBlocks(N, O)))

\* A block detection that enters the unlink loop whatever maxWords is.
DetectBlocksAlways ==
    /\ pc = "detectBlocks"
    /\ \E D \in {Detect(newText, oldText, maxWords)} :
           /\ blocks' = D.blocks
           /\ groups' = D.groups
           /\ sections' = D.sections
           /\ maxWords' = D.maxWords
    /\ pc' = IF config.unlinkBlocks /\ 0 < config.unlinkMax
             THEN "unlink" ELSE "delBlocks"
    /\ unlinkCount' = 0
    /\ UNCHANGED <<inputVars, stack, textVars, tableVars, fragments, error, raised>>

\* detectBlocks: the first block detection, and the test whether to unlink.
DetectBlocks ==
    /\ pc = "detectBlocks"
    /\ \E D \in {Detect(newText, oldText, maxWords)} :
           /\ blocks' = D.blocks
           /\ groups' = D.groups
           /\ sections' = D.sections
           /\ maxWords' = D.maxWords
           /\ pc' = IF /\ config.unlinkBlocks
                       /\ config.blockMinLength > 0
                       /\ D.maxWords >= config.blockMinLength
                       /\ 0 < config.unlinkMax
                    THEN "unlink" ELSE "delBlocks"
    /\ unlinkCount' = 0
    /\ UNCHANGED <<inputVars, stack, textVars, tableVars, fragments, error, raised>>

\* detectBlocks, the unlink loop: convert '=' to '+'/'-' pairs.
Unlink ==
    /\ pc = "unlink"
    /\ \E U \in {unlinkBlocks(newText, oldText, blocks, groups,
                                config.blockMinLength)} :
           /\ newText' = U.newText
           /\ oldText' = U.oldText
           /\ unlinkCount' = IF U.unlinked THEN unlinkCount + 1 ELSE unlinkCount
           /\ pc' = IF U.unlinked THEN "relink" ELSE "delBlocks"
    /\ UNCHANGED <<inputVars, stack, tableVars, blocks, groups, sections, maxWords,
                   fragments, error, raised>>

\* detectBlocks, the unlink loop: start over after a conversion.
Relink ==
    /\ pc = "relink"
    /\ \E S \in {slideBoth(newText, oldText)} :
       \E D \in {Detect(S.newText, S.oldText, 0)} :
           /\ newText' = S.newText
           /\ oldText' = S.oldText
           /\ blocks' = D.blocks
           /\ groups' = D.groups
           /\ sections' = D.sections
           /\ maxWords' = D.maxWords
    /\ pc' = IF unlinkCount < config.unlinkMax THEN "unlink" ELSE "delBlocks"
    /\ UNCHANGED <<inputVars, stack, tableVars, unlinkCount, fragments, error, raised>>

\* detectBlocks: collect the '-' blocks and position them in new text order.
CollectDelBlocks ==
    /\ pc = "delBlocks"
    /\ \E P \in {positionDelBlocks(getDelBlocks(newText, oldText, blocks),
                                     groups)} :
           /\ blocks' = P.blocks
           /\ groups' = P.groups
    /\ pc' = "insBlocks"
    /\ UNCHANGED <<inputVars, stack, textVars, tableVars, sections, maxWords,
                   unlinkCount, fragments, error, raised>>

\* detectBlocks: collect the '+' blocks and set their groups.
CollectInsBlocks ==
    /\ pc = "insBlocks"
    /\ \E I \in {getInsBlocks(newText, blocks, groups)} :
       \E G \in {setInsGroups(I.blocks, I.groups)} :
           /\ blocks' = G.blocks
           /\ groups' = G.groups
    /\ pc' = "insertMarks"
    /\ UNCHANGED <<inputVars, stack, textVars, tableVars, sections, maxWords,
                   unlinkCount, fragments, error, raised>>

\* detectBlocks: mark the original positions of the moved groups.
InsertMarks ==
    /\ pc = "insertMarks"
    /\ \E M \in {insertMarks(blocks, groups)} :
           /\ blocks' = M.blocks
           /\ groups' = M.groups
    /\ pc' = "fragments"
    /\ UNCHANGED <<inputVars, stack, textVars, tableVars, sections, maxWords,
                   unlinkCount, fragments, error, raised>>

\* diff(): assemble the blocks into the fragment table; free memory.
AssembleFragments ==
    /\ pc = "fragments"
    /\ fragments' = getDiffFragments(blocks, groups)
    /\ newText' = [newText EXCEPT !.tokens = <<>>]
    /\ oldText' = [oldText EXCEPT !.tokens = <<>>]
    /\ blocks' = <<>>
    /\ groups' = <<>>
    /\ sections' = <<>>
    /\ pc' = "unitTests"
    /\ UNCHANGED <<inputVars, stack, tableVars, maxWords, unlinkCount, error, raised>>

\* getDiffPlainText(fragments, version), from fragment k on.
RECURSIVE getDiffPlainText(_, _, _)
getDiffPlainText(frs, version, k) ==
    IF k > Len(frs) THEN <<>>
    ELSE LET text == frs[k].text
             type == frs[k].type
             color == frs[k].color
         IN  (IF type = "="
              THEN (IF color # 0
                    THEN (IF version # "old" THEN text ELSE <<>>)
                    ELSE text)
              ELSE IF type = "-" /\ version = "old"
              THEN (IF version = "new" \/ color = 0 THEN text ELSE <<>>)
              ELSE IF type = "+" /\ version = "new" THEN text
              ELSE IF type = "<" \/ type = ">"
              THEN (IF version = "old" THEN text ELSE <<>>)
              ELSE <<>>)
             \o getDiffPlainText(frs, version, k + 1)

\* diff(): the unit tests.  unitTests assigns False to the error flag at a
\* mismatch and then reads the name text, which no scope defines.
UnitTests ==
    /\ pc = "unitTests"
    /\ IF config.unitTesting
          /\ \/ getDiffPlainText(fragments, "new", 1) # newText.text
             \/ getDiffPlainText(fragments, "old", 1) # oldText.text
       THEN /\ error' = FALSE
            /\ raised' = "NameError"
            /\ pc' = "done"
       ELSE /\ UNCHANGED <<error, raised>>
            /\ pc' = "clip"
    /\ UNCHANGED <<inputVars, stack, textVars, tableVars, blockVars, fragments>>

\* diff(): clipping, skipped for a full diff.
Clip ==
    /\ pc = "clip"
    /\ IF config.fullDiff
       THEN UNCHANGED <<fragments, raised>>
       ELSE \E C \in {clipDiffFragments(fragments, config)} :
                /\ fragments' = C.frs
                /\ raised' = C.raised
    /\ pc' = "done"
    /\ UNCHANGED <<inputVars, stack, textVars, tableVars, blockVars, error>>

Next ==
    \/ Diff
    \/ SplitParagraph
    \/ SplitRefine
    \/ Pass3Step
    \/ Pass4Step
    \/ Pass5Step
    \/ FromStart
    \/ FromEnd
    \/ SaveBorders
    \/ Recurse
    \/ SlideGaps
    \/ SplitRefineChars
    \/ Enumerate
    \/ DetectBlocks
    \/ Unlink
    \/ Relink
    \/ CollectDelBlocks
    \/ CollectInsBlocks
    \/ InsertMarks
    \/ AssembleFragments
    \/ UnitTests
    \/ Clip

Spec == Init /\ [][Next]_vars

\* The object is used for any number of calls of diff, one after the other.
NextReuse ==
    \/ Next
    \/ DiffAgain

Reuse == Init /\ [][NextReuse]_vars

(***************************************************************************)
(* Properties of the streams diff() returns.                               *)
(***************************************************************************)
\* diff() has returned its stream: it ran to its end and raised nothing.
Returned == pc = "done" /\ raised = ""

\* The texts of the fragments of frs that Keep selects, in stream order.
Projection(frs, Keep(_)) ==
    Concat([k \in 1..Len(frs) |-> IF Keep(frs[k]) THEN frs[k].text ELSE <<>>])

\* The '=' and '+' texts of a stream.
NewProjection(frs) ==
    LET Keep(fr) == fr.type \in {"=", "+"} IN Projection(frs, Keep)

\* The '=' and '-' texts of colour 0 and the mark texts of a stream.
OldProjection(frs) ==
    LET Keep(fr) == \/ fr.type \in {"=", "-"} /\ fr.color = 0
                    \/ fr.type \in {"<", ">"}
    IN  Projection(frs, Keep)

\* An argument of diff without the one trailing newline that is stripped
\* when both arguments end with one.
WithoutNewline(string) ==
    IF /\ config.stripTrailingNewline
       /\ oldString # <<>> /\ oldString[Len(oldString)] = "\n"
       /\ newString # <<>> /\ newString[Len(newString)] = "\n"
    THEN SubSeq(string, 1, Len(string) - 1)
    ELSE string

\* Some fragment of the stream has type type.
HasType(frs, type) == \E k \in 1..Len(frs) : frs[k].type = type

\* C2: with fullDiff, the '=' and '-' texts of colour 0 and the mark texts of
\* the returned stream, in stream order, are the old text.
C2_OldProjection ==
    (/\ Returned /\ config.fullDiff /\ ~config.unitTesting
     /\ WithoutNewline(newString) # WithoutNewline(oldString))
        => OldProjection(fragments) = WithoutNewline(oldString)

\* C3: diff(x, x) returns the five fragments '{', '[', '=', ']', '}' with
\* empty text and color 0, also when x ends with a newline that is stripped.
C3_NoChange ==
    (pc = "done" /\ oldString = newString)
        => /\ raised = ""
           /\ Len(fragments) = 5
           /\ [k \in 1..5 |-> fragments[k].type] = <<"{", "[", "=", "]", "}">>
           /\ \A k \in 1..5 : fragments[k].text = <<>> /\ fragments[k].color = 0

\* diff(x, x) returned for a text x that ends with a newline, with clipping.
C3_Witness ==
    /\ Returned /\ oldString = newString /\ EndsWithNewline(newString)
    /\ ~config.fullDiff /\ Len(fragments) = 5

\* The state of a reader of the stream after a fragment of the given type:
\* "start" before the stream, "container" after '{' or ',', "fragment"
\* inside '[' ... ']', "moved" inside a moved block, "closed" after ']',
\* "end" after '}', "bad" after a marker that is out of place.  close is the
\* type that ends a moved block.
Read(state, type, close) ==
    CASE state = "start" -> IF type = "{" THEN "container" ELSE "bad"
      [] state = "container" -> IF type = "[" THEN "fragment" ELSE "bad"
      [] state = "fragment" ->
            IF type = "]" THEN "closed"
            ELSE IF type \in {"(<", "(>"} THEN "moved"
            ELSE IF type \in {"{", "}", "[", ",", close} THEN "bad"
            ELSE "fragment"
      [] state = "moved" ->
            IF type = close THEN "fragment"
            ELSE IF type \in {"{", "}", "[", "]", ",", "(<", "(>"} THEN "bad"
            ELSE "moved"
      [] state = "closed" ->
            IF type = "," THEN "container"
            ELSE IF type = "}" THEN "end"
            ELSE "bad"
      [] OTHER -> "bad"

\* The state of the reader after the fragments k.. of frs.
RECURSIVE ReadFrom(_, _, _, _)
ReadFrom(frs, k, state, close) ==
    IF k > Len(frs) THEN state
    ELSE ReadFrom(frs, k + 1, Read(state, frs[k].type, close), close)

\* The markers of frs are balanced, close ending a moved block.
Balanced(frs, close) == ReadFrom(frs, 1, "start", close) = "end"

\* C4: in every returned stream, clipped or not, the markers are balanced:
\* '{' first and '}' last, every '[' closed by ']' with ',' only between a ']'
\* and the next '[', every '(<' or '(>' closed by one fragment of type ')'
\* before another moved block opens, and no '[', ']' or ',' inside a moved
\* block.
C4_Balanced == Returned => Balanced(fragments, ")")

\* C5: in every returned stream no two adjacent fragments have the same type
\* and the same color while both have non-empty text.
C5_Merged ==
    Returned =>
        \A k \in 1..(Len(fragments) - 1) :
            ~(/\ fragments[k].type = fragments[k + 1].type
              /\ fragments[k].color = fragments[k + 1].color
              /\ fragments[k].text # <<>>
              /\ fragments[k + 1].text # <<>>)

\* A returned stream in which two blocks of one type and color were merged:
\* the deletions " " and "t", apart in the old text, are one fragment.
C5_Witness ==
    /\ Returned
    /\ oldString = <<"a", "b", " ", "-", "t">>
    /\ \E k \in 1..Len(fragments) :
          fragments[k].type = "-" /\ fragments[k].text = <<" ", "t">>

\* The markers of every returned stream are balanced when the type ' )' ends
\* a moved block.
BalancedAsEmitted == Returned => Balanced(fragments, " )")

\* Block b lies in the range of the group with index g.
InGroup(grps, g, b) == At(grps, g).blockStart <= b /\ b <= At(grps, g).blockEnd

\* The texts of the '=' and '-' blocks that carry the group index g, in
\* block order.
MovedText(blks, g) ==
    Concat([k \in 1..Len(blks) |->
               IF blks[k].group = g /\ blks[k].type \in {"=", "-"}
               THEN blks[k].text ELSE <<>>])

\* The positions of the fragments of frs with one of the types and color c.
Places(frs, types, c) ==
    {k \in 1..Len(frs) : frs[k].type \in types /\ frs[k].color = c}

\* The first fragment after k that ends a moved block, 0 when none does.
ClosingOf(frs, k) ==
    IF \E m \in (k + 1)..Len(frs) : frs[m].type \in {")", " )"}
    THEN CHOOSE m \in (k + 1)..Len(frs) :
            /\ frs[m].type \in {")", " )"}
            /\ \A q \in (k + 1)..(m - 1) : frs[q].type \notin {")", " )"}
    ELSE 0

\* The groups blks and grps give frs the colors and marks of C6.
Colored(frs, blks, grps) ==
    /\ \A g \in 1..Len(grps) :
          grps[g].color # 0 =>
              grps[g].color = 1 + Cardinality({h \in 1..(g - 1) : grps[h].color # 0})
    /\ \A k \in 1..Len(frs) :
          frs[k].color # 0 => \E g \in 1..Len(grps) : grps[g].color = frs[k].color
    /\ \A g \in 1..Len(grps) :
          grps[g].color # 0 =>
              /\ Cardinality(Places(frs, {"(<", "(>"}, grps[g].color)) = 1
              /\ \A k \in Places(frs, {"(<", "(>"}, grps[g].color) :
                    /\ ClosingOf(frs, k) # 0
                    /\ frs[ClosingOf(frs, k)].color = grps[g].color
              /\ Cardinality(Places(frs, {"<", ">"}, grps[g].color)) = 1
              /\ \A k \in Places(frs, {"<", ">"}, grps[g].color) :
                    frs[k].text = MovedText(blks, g - 1)

\* every '=' block of a group that is not fixed is emitted with a color
\* >= 1; a group of only deleted or inserted text has no color and no mark.
C7_Unmoved ==
    pc = "fragments" =>
        \A g \in 1..Len(groups) :
            /\ \A b \in 1..Len(blocks) :
                  (InGroup(groups, g - 1, b - 1) /\ blocks[b].type = "=")
                      => (groups[g].color = 0 <=> groups[g].fixed)
            /\ (\A b \in 1..Len(blocks) :
                   InGroup(groups, g - 1, b - 1) => blocks[b].type \in {"-", "+"})
                  => /\ groups[g].color = 0
                     /\ \A b \in 1..Len(blocks) :
                           blocks[b].type = "|" => blocks[b].moved # g - 1

\* The two arguments of diff differ after the stripping, so that the stream is
\* assembled from blocks and the unit tests, when configured, are run.
Differ == WithoutNewline(newString) # WithoutNewline(oldString)

\* A projection of the stream differs from its version of the text.
Mismatch ==
    \/ NewProjection(fragments) # WithoutNewline(newString)
    \/ OldProjection(fragments) # WithoutNewline(oldString)

\* C8, for two inputs that differ: with unitTesting, when a projection of the
\* stream differs from its text, diff() sets the error flag and still returns
\* the stream; when both projections match, error stays false.
C8_ErrorFlag ==
    (pc = "done" /\ config.unitTesting /\ Differ)
        => IF Mismatch THEN error /\ raised = "" ELSE ~error

\* The fragments of a stream other than its containers, as <<type, text>>.
RECURSIVE Content(_)
Content(frs) ==
    IF frs = <<>> THEN <<>>
    ELSE (IF Head(frs).type \in {"{", "[", "]", "}"} THEN <<>>
          ELSE <<(<<Head(frs).type, Head(frs).text>>)>>)
         \o Content(Tail(frs))

\* diff(old, new) with the default configuration is, or has been, running.
Diffing(old, new) ==
    oldString = old /\ newString = new /\ config = DefaultConfig

\* splitRefineChars is about to select a gap of one token against three.
OneToThree ==
    \E k \in 1..Len(GapsOf(newText, oldText)) :
        /\ GapsOf(newText, oldText)[k].charSplit
        /\ GapsOf(newText, oldText)[k].newTokens # GapsOf(newText, oldText)[k].oldTokens

\* C9 as stated: for old = "cat" and new = "c-a-t" with the default
\* configuration the 1<->3 case of the character refiner triggers and the
\* stream is ="c", +"-", ="a", +"-", ="t".
C9_Cat ==
    Diffing(<<"c", "a", "t">>, <<"c", "-", "a", "-", "t">>)
        => /\ pc = "character" => OneToThree
           /\ Returned =>
                Content(fragments) =
                    << <<"=", <<"c">> >>, <<"+", <<"-">> >>, <<"=", <<"a">> >>,
                       <<"+", <<"-">> >>, <<"=", <<"t">> >> >>

\* The stream holds the word `old' as one deletion and `new' as one insertion
\* and no text the two versions share.
WholeWord(frs, old, new) ==
    /\ \E k \in 1..Len(frs) : frs[k].type = "-" /\ frs[k].text = old
    /\ \E k \in 1..Len(frs) : frs[k].type = "+" /\ frs[k].text = new
    /\ ~HasType(frs, "=")

\* C9, amended: a word that one internal separator split in two, next to
\* text both versions share, is diffed at character level: for old = "ab c"
\* and new = "a-b c" with the default configuration the 1<->3 case of the
\* character refiner triggers and the stream is ="a", +"-", ="b c".  For
\* old = "cat" and new = "c-a-t", one token against five, no gap is selected
\* and the stream holds the whole word "cat" as a deletion and "c-a-t" as an
\* insertion.
C9_OneToThree ==
    /\ Diffing(<<"a", "b", " ", "c">>, <<"a", "-", "b", " ", "c">>)
        => /\ pc = "character" => OneToThree
           /\ Returned =>
                Content(fragments) =
                    << <<"=", <<"a">> >>, <<"+", <<"-">> >>,
                       <<"=", <<"b", " ", "c">> >> >>
    /\ Diffing(<<"c", "a", "t">>, <<"c", "-", "a", "-", "t">>)
        => /\ pc = "character" =>
                \A k \in 1..Len(GapsOf(newText, oldText)) :
                    ~GapsOf(newText, oldText)[k].charSplit
           /\ Returned =>
                WholeWord(fragments, <<"c", "a", "t">>,
                          <<"c", "-", "a", "-", "t">>)

\* diff("ab c", "a-b c") returned with the default configuration, the dash
\* an insertion of its own.
C9_Witness ==
    /\ Diffing(<<"a", "b", " ", "c">>, <<"a", "-", "b", " ", "c">>)
    /\ Returned
    /\ \E k \in 1..Len(fragments) :
          fragments[k].type = "+" /\ fragments[k].text = <<"-">>

\* Every link of N has its counterpart in O and every link of O in N.
Symmetric(N, O) ==
    /\ \A i \in 1..Len(N.tokens) :
          N.tokens[i].link # None
              => /\ N.tokens[i].link + 1 \in 1..Len(O.tokens)
                 /\ O.tokens[N.tokens[i].link + 1].link = i - 1
    /\ \A j \in 1..Len(O.tokens) :
          O.tokens[j].link # None
              => /\ O.tokens[j].link + 1 \in 1..Len(N.tokens)
                 /\ N.tokens[O.tokens[j].link + 1].link = j - 1

\* C10: after every step of diff() that links or unlinks tokens, token i of
\* the new text is linked to token j of the old text if and only if j is
\* linked to i; also between the two directions of slideGaps.
C10_LinkSymmetry ==
    pc # "diff" =>
        /\ Symmetric(newText, oldText)
        /\ pc \in {"wordSlide", "characterSlide", "relink"} /\ stack = <<>>
              => Symmetric(slideGaps(newText, oldText).text,
                           slideGaps(newText, oldText).textLinked)

\* Blocks were unlinked, the gaps slid again, and tokens are still linked.
C10_Witness ==
    /\ pc = "delBlocks" /\ unlinkCount > 0
    /\ \E i \in 1..Len(newText.tokens) : newText.tokens[i].link # None

(***************************************************************************)
(* Properties of the token lists and of the block detection.               *)
(***************************************************************************)
\* The texts are split into tokens and diff() has not yet freed the lists.
Tokenized == pc \notin {"diff", "unitTests", "clip", "done"}

\* The linked list of the text T is intact: first and last are both absent
\* or both tokens, first has no prev and last no next, the walk along next
\* from first visits no token twice and ends at last, and prev of every
\* visited token is the token visited before it.
Intact(T) ==
    /\ T.first = None <=> T.last = None
    /\ T.first # None =>
          /\ At(T.tokens, T.first).prev = None
          /\ At(T.tokens, T.last).next = None
          /\ ListOf(T)[Len(ListOf(T))] = T.last
          /\ \A k, m \in 1..Len(ListOf(T)) : ListOf(T)[k] = ListOf(T)[m] => k = m
          /\ \A k \in 1..(Len(ListOf(T)) - 1) :
                /\ At(T.tokens, ListOf(T)[k]).next = ListOf(T)[k + 1]
                /\ At(T.tokens, ListOf(T)[k + 1]).prev = ListOf(T)[k]

\* C11: after the initial splitText(level) and after every splitText(level,
\* token) of splitRefine and splitRefineChars, the prev and next pointers of
\* the linked list of either text are symmetric, first has no prev, last has
\* no next, and the walk from first visits every list token once and ends at
\* last.
C11_ListIntegrity == Tokenized => Intact(newText) /\ Intact(oldText)

\* The first and the last token of the new text were split, and a token in
\* the middle was replaced by a single piece with the same text.
C11_Witness ==
    /\ pc = "fragments" /\ newText.first # None
    /\ newText.first # 0
    /\ At(newText.tokens, newText.last).next = None
    /\ newText.last # Len(newText.tokens) - 1
    /\ \E i \in 1..Len(newText.tokens), d \in 1..Len(newText.tokens) :
          /\ i # d
          /\ newText.tokens[i].token = newText.tokens[d].token
          /\ newText.tokens[i].prev = newText.tokens[d].prev
          /\ newText.tokens[i].next = newText.tokens[d].next
          /\ newText.tokens[i].prev # None /\ newText.tokens[i].next # None

\* detectBlocks has run getSameBlocks, getSections, getGroups and setFixed, and
\* blocks, groups and sections are as these left them.
Detected == pc \in {"unlink", "relink", "delBlocks"}

\* findMaxPath without its cache: the plain recursion.
RECURSIVE PlainPath(_, _, _)
RECURSIVE PlainSub(_, _, _, _, _)
PlainSub(grps, start, i, groupEnd, best) ==
    IF i > groupEnd THEN best
    ELSE IF At(grps, i).oldNumber < At(grps, start).oldNumber
         THEN PlainSub(grps, start, i + 1, groupEnd, best)
         ELSE LET Pick(P) == PlainSub(grps, start, i + 1, groupEnd,
                                      IF P.chars > best.chars THEN P ELSE best)
              IN  Pick(PlainPath(grps, i, groupEnd))

PlainPath(grps, start, groupEnd) ==
    LET Add(best) == [path |-> <<start>> \o best.path,
                      chars |-> best.chars + At(grps, start).chars]
    IN  Add(PlainSub(grps, start, start + 1, groupEnd, [path |-> <<>>, chars |-> 0]))

\* The calls findMaxPath(i, groupEnd, cache) of setFixed for the start groups
\* i.. of a section, one after the other on the same cache, return what the
\* plain recursion returns, and the cache holds nothing else.
RECURSIVE MemoAgrees(_, _, _, _)
MemoAgrees(grps, i, groupEnd, cache) ==
    IF i > groupEnd THEN TRUE
    ELSE LET Agrees(P) ==
                 /\ P.obj = PlainPath(grps, i, groupEnd)
                 /\ \A e \in P.cache :
                       [path |-> e.path, chars |-> e.chars]
                           = PlainPath(grps, e.start, groupEnd)
                 /\ MemoAgrees(grps, i + 1, groupEnd, P.cache)
         IN  Agrees(findMaxPath(grps, i, groupEnd, cache))

\* The sum of the chars of the groups with an index in S.
RECURSIVE SumChars(_, _)
SumChars(grps, S) ==
    IF S = {} THEN 0
    ELSE LET g == CHOOSE g \in S : TRUE IN At(grps, g).chars + SumChars(grps, S \ {g})

\* The groups with an index in S have increasing oldNumber in new text order.
Increasing(grps, S) ==
    \A x, y \in S : x < y => At(grps, x).oldNumber < At(grps, y).oldNumber

\* The groups of lo..hi that are fixed.
FixedIn(grps, lo, hi) == {g \in lo..hi : At(grps, g).fixed}

\* setFixed did to the section with the groups lo..hi what C12 says.
LongestFixed(blks, grps, lo, hi) ==
    /\ Increasing(grps, FixedIn(grps, lo, hi))
    /\ \A S \in SUBSET (lo..hi) :
          Increasing(grps, S)
              => SumChars(grps, S) <= SumChars(grps, FixedIn(grps, lo, hi))
    /\ \A g \in FixedIn(grps, lo, hi) :
          \A b \in At(grps, g).blockStart..At(grps, g).blockEnd : At(blks, b).fixed
    /\ MemoAgrees(grps, lo, hi, {})

\* C12: in every section the groups that setFixed marks fixed have increasing
\* oldNumber in new text order and the largest total chars of all such
\* selections of groups of the section, all their blocks are fixed, and
\* findMaxPath with its cache returns for every start what the recursion
\* without a cache returns.
C12_LongestPath ==
    Detected =>
        \A k \in 1..Len(sections) :
            LongestFixed(blocks, groups,
                         At(blocks, sections[k].blockStart).group,
                         At(blocks, sections[k].blockEnd).group)

\* A section of four groups of which two are fixed, so that findMaxPath finds
\* paths in its cache.
C12_Witness ==
    /\ Detected
    /\ \E k \in 1..Len(sections) :
          /\ At(blocks, sections[k].blockEnd).group
               >= At(blocks, sections[k].blockStart).group + 3
          /\ Cardinality(FixedIn(groups, At(blocks, sections[k].blockStart).group,
                                  At(blocks, sections[k].blockEnd).group)) >= 2

\* Block b (0-based) lies in the range of section k (1-based).
InSection(secs, k, b) == secs[k].blockStart <= b /\ b <= secs[k].blockEnd

\* C13: any two '=' blocks that cross, a before b in new text order with the
\* greater oldNumber, have the same section number; the sections are ranges
\* of at least two blocks, one after the other without a common block; the
\* section number of a block is that of the range it lies in, and a block
\* outside every section crosses no other block.
C13_Sections ==
    Detected =>
        /\ \A a, b \in 1..Len(blocks) :
              (a < b /\ blocks[a].oldNumber > blocks[b].oldNumber)
                  => /\ blocks[a].section # None
                     /\ blocks[a].section = blocks[b].section
        /\ \A k \in 1..Len(sections) :
              /\ 0 <= sections[k].blockStart
              /\ sections[k].blockStart < sections[k].blockEnd
              /\ sections[k].blockEnd < Len(blocks)
              /\ k < Len(sections)
                    => sections[k].blockEnd < sections[k + 1].blockStart
        /\ \A b \in 1..Len(blocks) :
              /\ \A k \in 1..Len(sections) :
                    InSection(sections, k, b - 1) <=> blocks[b].section = k - 1
              /\ blocks[b].section = None
                    => \A a \in 1..Len(blocks) :
                          (a < b => blocks[a].oldNumber < blocks[b].oldNumber)
                          /\ (b < a => blocks[b].oldNumber < blocks[a].oldNumber)

\* Two sections and a block outside both.
C13_Witness ==
    /\ Detected
    /\ Len(sections) >= 2
    /\ \E b \in 1..Len(blocks) : blocks[b].section = None

\* A section whose last block crosses a block inside the section but not the
\* first block of the section.
C13_WitnessInner ==
    /\ Detected
    /\ \E k \in 1..Len(sections) :
          /\ At(blocks, sections[k].blockEnd).oldNumber
               > At(blocks, sections[k].blockStart).oldNumber

\* The groups G.groups of getGroups on the blocks B: ranges of blocks one
\* after the other that cover B, each a longest run of oldBlock + 1; the sums,
\* the maximum and the unique flag of the blocks; fixed, with all its blocks,
\* exactly when its blocks have no section; G.maxWords the greatest maxWords.
GroupsOK(B, G) ==
    LET gs == G.groups
        In(k) == (gs[k].blockStart + 1)..(gs[k].blockEnd + 1)
        Words[b \in 0..Len(B)] == IF b = 0 THEN 0 ELSE Words[b - 1] + B[b].words
        CharSum[b \in 0..Len(B)] == IF b = 0 THEN 0 ELSE CharSum[b - 1] + B[b].chars
    IN  /\ Len(G.blocks) = Len(B)
        /\ (B # <<>>) => /\ gs # <<>>
                         /\ gs[1].blockStart = 0
                         /\ gs[Len(gs)].blockEnd = Len(B) - 1
        /\ \A k \in 1..Len(gs) :
              /\ gs[k].blockStart <= gs[k].blockEnd
              /\ k < Len(gs) =>
                    /\ gs[k + 1].blockStart = gs[k].blockEnd + 1
                    /\ At(B, gs[k + 1].blockStart).oldBlock
                          # At(B, gs[k].blockEnd).oldBlock + 1
              /\ \A b \in In(k) :
                    /\ G.blocks[b].group = k - 1
                    /\ G.blocks[b].fixed = gs[k].fixed
                    /\ b > gs[k].blockStart + 1
                          => B[b].oldBlock = B[b - 1].oldBlock + 1
                    /\ B[b].words <= gs[k].maxWords
              /\ \E b \in In(k) : B[b].words = gs[k].maxWords
              /\ gs[k].words = Words[gs[k].blockEnd + 1] - Words[gs[k].blockStart]
              /\ gs[k].chars = CharSum[gs[k].blockEnd + 1] - CharSum[gs[k].blockStart]
              /\ gs[k].unique <=> \E b \in In(k) : B[b].unique
              /\ gs[k].fixed <=> \A b \in In(k) : B[b].section = None
              /\ gs[k].oldNumber = At(B, gs[k].blockStart).oldNumber
              /\ gs[k].maxWords <= G.maxWords
        /\ gs # <<>> => \E k \in 1..Len(gs) : gs[k].maxWords = G.maxWords

\* C14: getGroups, in the first block detection and in each one that follows
\* an unlinking, gives every '=' block exactly one group, the groups being
\* the longest runs of blocks next to each other in new text order with
\* oldBlock increasing by 1; words and chars of a group are the sums, maxWords
\* the maximum over its blocks, unique holds iff a block is unique; the group
\* and its blocks are fixed exactly when the blocks lie in no section; and
\* self.maxWords is the greatest maxWords of the groups.
C14_Groups ==
    LET Grouped(B, words) == GroupsOK(B, getGroups(B, words))
        First(N, O, words) == Grouped(getSections(getSameBlocks(N, O)).blocks, words)
        Again(S) == First(S.newText, S.oldText, 0)
    IN  /\ pc = "detectBlocks" => First(newText, oldText, maxWords)
        /\ pc = "relink" => Again(slideBoth(newText, oldText))

\* The first block detection of a call finds self.maxWords greater than the
\* words of every block: an earlier call on the object has left it.
C14_Stale ==
    LET Small(B) == B # <<>> /\ \A b \in 1..Len(B) : B[b].words < maxWords
    IN  pc = "detectBlocks" /\ Small(getSameBlocks(newText, oldText))

\* The key of sortBlocks, and its order.
SortKey(b) == <<int_or_null(b.newNumber), int_or_null(b.oldNumber)>>
KeyLeq(x, y) == x[1] < y[1] \/ (x[1] = y[1] /\ x[2] <= y[2])

\* The blocks B are in the order of their keys.
Ordered(B) == \A a, b \in 1..Len(B) : a < b => KeyLeq(SortKey(B[a]), SortKey(B[b]))

\* Out holds the blocks of In, those of equal key in the order of In.
Stable(In, Out) ==
    /\ Len(In) = Len(Out)
    /\ \A a \in 1..Len(Out) : \E i \in 1..Len(In) : In[i] = Out[a]
    /\ \A a, b \in 1..Len(Out) :
          (a < b /\ SortKey(Out[a]) = SortKey(Out[b]) /\ Out[a] # Out[b])
              => \E i, j \in 1..Len(In) : i < j /\ In[i] = Out[a] /\ In[j] = Out[b]

\* The blocks that carry group g, as indices of B from 0.
Carrying(B, g) == {b \in 0..(Len(B) - 1) : At(B, b).group = g}

\* Every group of G that owns a block of B starts at its first block, ends at
\* its last block and has the oldNumber of the first.
GroupsUpdated(B, G) ==
    \A g \in 0..(Len(G) - 1) :
        Carrying(B, g) # {} =>
            /\ At(G, g).blockStart = CHOOSE b \in Carrying(B, g) :
                                        \A c \in Carrying(B, g) : b <= c
            /\ At(G, g).blockEnd = CHOOSE b \in Carrying(B, g) :
                                      \A c \in Carrying(B, g) : c <= b
            /\ At(G, g).oldNumber = At(B, At(G, g).blockStart).oldNumber

\* C15: after each of the three calls of sortBlocks (at the end of
\* positionDelBlocks, of getInsBlocks and of insertMarks) the blocks are in
\* the order of (newNumber, oldNumber), None counting as 0, blocks of equal
\* key in the order they had; and every group that owns a block, group 0
\* too, has as blockStart the index of its first block, as blockEnd the
\* index of its last block and as oldNumber the oldNumber of its first block.
C15_Sorted ==
    LET Sorted(In, R) == /\ Ordered(R.blocks)
                         /\ Stable(In, R.blocks)
                         /\ GroupsUpdated(R.blocks, R.groups)
        Del(B, order) == Sorted(PositionFrom(B, groups, order, 0),
                                positionDelBlocks(B, groups))
        DelFrom(B) == Del(B, SortOrder([k \in 1..Len(B) |-> <<B[k].oldNumber, 0>>]))
        Marked(R) == Ordered(R.blocks) /\ GroupsUpdated(R.blocks, R.groups)
    IN  /\ pc = "delBlocks" => DelFrom(getDelBlocks(newText, oldText, blocks))
        /\ pc = "insBlocks" => Sorted(InsBlocks(newText, blocks),
                                      getInsBlocks(newText, blocks, groups))
        /\ pc = "insertMarks" => Marked(insertMarks(blocks, groups))

\* The order alone, after each of the three calls.
C15_Order ==
    LET Sorted(In, R) == Ordered(R.blocks) /\ Stable(In, R.blocks)
        Del(B, order) == Sorted(PositionFrom(B, groups, order, 0),
                                positionDelBlocks(B, groups))
        DelFrom(B) == Del(B, SortOrder([k \in 1..Len(B) |-> <<B[k].oldNumber, 0>>]))
        Marked(R) == Ordered(R.blocks)
    IN  /\ pc = "delBlocks" => DelFrom(getDelBlocks(newText, oldText, blocks))
        /\ pc = "insBlocks" => Sorted(InsBlocks(newText, blocks),
                                      getInsBlocks(newText, blocks, groups))
        /\ pc = "insertMarks" => Marked(insertMarks(blocks, groups))

\* The blocks of B before (after) block d in old text order, nearest first.
Earlier(B, d) == {p \in 1..Len(B) : B[p].oldNumber < B[d].oldNumber}
Later(B, d) == {p \in 1..Len(B) : B[p].oldNumber > B[d].oldNumber}
Predecessor(B, d) ==
    CHOOSE p \in Earlier(B, d) : \A q \in Earlier(B, d) : B[q].oldNumber <= B[p].oldNumber
Successor(B, d) ==
    CHOOSE p \in Later(B, d) : \A q \in Later(B, d) : B[p].oldNumber <= B[q].oldNumber

\* Block p is the last (first) '=' block of its group in new text order.
LastOfGroup(B, p) ==
    ~\E q \in 1..Len(B) : /\ B[q].type = "=" /\ B[q].group = B[p].group
                          /\ B[q].newNumber > B[p].newNumber
FirstOfGroup(B, p) ==
    ~\E q \in 1..Len(B) : /\ B[q].type = "=" /\ B[q].group = B[p].group
                          /\ B[q].newNumber < B[p].newNumber

\* The '=' blocks that are fixed and before block d in old text order.
FixedEarlier(B, d) == {p \in Earlier(B, d) : B[p].type = "=" /\ B[p].fixed}

\* The reference of the '-' block d by the rules (1) to (5), None when no
\* rule applies.
Reference(B, d) ==
    LET hasPrev == Earlier(B, d) # {}
        hasNext == Later(B, d) # {}
        prev == Predecessor(B, d)
        next == Successor(B, d)
    IN  IF hasPrev /\ B[prev].type = "=" /\ B[prev].fixed THEN prev
        ELSE IF hasNext /\ B[next].type = "=" /\ B[next].fixed THEN next
        ELSE IF hasPrev /\ B[prev].type = "=" /\ ~LastOfGroup(B, prev) THEN prev
        ELSE IF hasNext /\ B[next].type = "=" /\ ~FirstOfGroup(B, next) THEN next
        ELSE IF FixedEarlier(B, d) # {}
        THEN CHOOSE p \in FixedEarlier(B, d) :
                \A q \in FixedEarlier(B, d) : B[q].oldNumber <= B[p].oldNumber
        ELSE None

\* The blocks R after positionDelBlocks of the blocks B: every '-' block has
\* the newNumber, section, group and fixed of its reference, or newNumber -1
\* and a place before every block that has a reference or is no '-' block.
Positioned(B, R) ==
    /\ Len(R) = Len(B)
    /\ \A d \in 1..Len(B) :
          B[d].type = "-" =>
              \E r \in 1..Len(R) :
                  /\ R[r].type = "-"
                  /\ R[r].oldNumber = B[d].oldNumber
                  /\ R[r].text = B[d].text
                  /\ IF Reference(B, d) # None
                     THEN /\ R[r].newNumber = B[Reference(B, d)].newNumber
                          /\ R[r].section = B[Reference(B, d)].section
                          /\ R[r].group = B[Reference(B, d)].group
                          /\ R[r].fixed = B[Reference(B, d)].fixed
                     ELSE /\ R[r].newNumber = -1
                          /\ \A q \in 1..(r - 1) :
                                R[q].type = "-" /\ R[q].newNumber = -1

\* positionDelBlocks has left a '-' block without a reference, in front of
\* '=' blocks.
C16_WitnessNone ==
    /\ pc = "insBlocks"
    /\ \E d \in 1..Len(blocks) : blocks[d].type = "-" /\ blocks[d].newNumber = -1
    /\ \E d \in 1..Len(blocks) : blocks[d].type = "="

\* The blocks of B that have a place in the old text.
InOld(B) == {p \in 1..Len(B) : B[p].oldNumber # None}

\* The blocks of B that carry group g and have a place in the old text.
OldOf(B, g) == {p \in InOld(B) : B[p].group = g}

\* The blocks before (after) every old block of group g in old text order.
BeforeGroup(B, g) ==
    {p \in InOld(B) : \A q \in OldOf(B, g) : B[p].oldNumber < B[q].oldNumber}
AfterGroup(B, g) ==
    {p \in InOld(B) : \A q \in OldOf(B, g) : B[p].oldNumber > B[q].oldNumber}

\* The reference of the mark of group g: the block right before the group in
\* old text order if it is '=' and fixed, else the block right after it if
\* '=' and fixed, else the nearest '=' fixed block before it; None without.
MarkReference(B, g) ==
    LET before == BeforeGroup(B, g)
        after == AfterGroup(B, g)
        prev == CHOOSE p \in before : \A q \in before : B[q].oldNumber <= B[p].oldNumber
        next == CHOOSE p \in after : \A q \in after : B[p].oldNumber <= B[q].oldNumber
        fixedBefore == {p \in before : B[p].type = "=" /\ B[p].fixed}
    IN  IF before # {} /\ B[prev].type = "=" /\ B[prev].fixed THEN prev
        ELSE IF after # {} /\ B[next].type = "=" /\ B[next].fixed THEN next
        ELSE IF fixedBefore # {}
        THEN CHOOSE p \in fixedBefore :
                \A q \in fixedBefore : B[q].oldNumber <= B[p].oldNumber
        ELSE None

\* The marks of group g among the blocks R.
MarksOf(R, g) == {m \in 1..Len(R) : R[m].type = "|" /\ R[m].moved = g}

\* Group g of G gets a mark: it is not fixed and has a place in the old text.
Moved(G, g) == ~At(G, g).fixed /\ At(G, g).oldNumber # None

\* One mark for each moved group of G and no other mark among the blocks of R.
OneMarkEach(G, R) ==
    /\ \A m \in 1..Len(R.blocks) :
          R.blocks[m].type = "|" =>
              R.blocks[m].moved \in 0..(Len(G) - 1) /\ Moved(G, R.blocks[m].moved)
    /\ \A g \in 0..(Len(G) - 1) :
          Cardinality(MarksOf(R.blocks, g)) = IF Moved(G, g) THEN 1 ELSE 0

\* The mark of each moved group g: its fields, and movedFrom of the group.
MarkFields(G, R) ==
    \A g \in 0..(Len(G) - 1) : \A m \in MarksOf(R.blocks, g) :
        /\ R.blocks[m].oldNumber = At(G, g).oldNumber
        /\ R.blocks[m].fixed = TRUE
        /\ R.blocks[m].text = <<>>
        /\ At(R.groups, g).movedFrom = R.blocks[m].group

\* The mark of each moved group g stands at its reference, or in front of all
\* blocks in a new group of its own.
MarkPlaces(B, G, R) ==
    \A g \in 0..(Len(G) - 1) : \A m \in MarksOf(R.blocks, g) :
        IF MarkReference(B, g) # None
        THEN /\ R.blocks[m].newNumber = B[MarkReference(B, g)].newNumber
             /\ R.blocks[m].group = B[MarkReference(B, g)].group
        ELSE /\ R.blocks[m].newNumber = -1
             /\ R.blocks[m].group >= Len(G)
             /\ R.blocks[m].group < Len(R.groups)
             /\ Carrying(R.blocks, R.blocks[m].group) = {m - 1}

\* C17: insertMarks adds exactly one '|' block for every group that is not
\* fixed and has an old position and none for another group; the mark has
\* the oldNumber of the moved group, moved the index of that group, fixed
\* true and an empty text; its reference is the block right before the moved
\* group in old text order if that is '=' and fixed, else the block right
\* after it if '=' and fixed, else the nearest '=' fixed block before it,
\* and the mark takes newNumber and group of the reference; without a
\* reference it has newNumber -1 and a new group of its own; movedFrom of the
\* moved group is the group of the mark.
C17_Marks ==
    LET Marked(R) == /\ OneMarkEach(groups, R)
                     /\ MarkFields(groups, R)
                     /\ MarkPlaces(blocks, groups, R)
    IN  pc = "insertMarks" => Marked(insertMarks(blocks, groups))

\* C17 without the place of the marks.
C17_OneMark ==
    LET Marked(R) == OneMarkEach(groups, R) /\ MarkFields(groups, R)
    IN  pc = "insertMarks" => Marked(insertMarks(blocks, groups))

\* The greatest maxWords of the groups G, 0 without groups.
GroupMaxWords(G) ==
    IF G = <<>> THEN 0
    ELSE CHOOSE w \in {G[k].maxWords : k \in 1..Len(G)} :
            \A k \in 1..Len(G) : G[k].maxWords <= w

\* What is left of the unlink loop: twice the cycles that may still unlink
\* something, plus the statements left in the cycle; 0 after detectBlocks
\* has left the loop.
LoopMeasure ==
    CASE pc = "detectBlocks" -> 2 * config.unlinkMax + 2
      [] pc = "relink" -> 2 * (config.unlinkMax - unlinkCount) + 2
      [] pc = "unlink" -> 2 * (config.unlinkMax - unlinkCount) + 1
      [] OTHER -> 0

\* A step of detectBlocks up to the end of its unlink loop.
UnlinkCycle ==
    LET unlinked == newText'.tokens # newText.tokens \/ oldText'.tokens # oldText.tokens
        Rerun(D) == /\ blocks' = D.blocks
                    /\ groups' = D.groups
                    /\ sections' = D.sections
        Slide(S) == /\ newText' = S.newText
                    /\ oldText' = S.oldText
                    /\ Rerun(Detect(S.newText, S.oldText, 0))
    IN  /\ (pc = "detectBlocks" /\ pc' = "unlink")
              => config.unlinkBlocks /\ maxWords' >= config.blockMinLength
        /\ pc = "detectBlocks" => pc' \in {"unlink", "delBlocks"} /\ unlinkCount' = 0
        /\ pc' = "unlink" => unlinkCount' < config.unlinkMax
        /\ pc = "unlink" =>
              IF unlinked
              THEN pc' = "relink" /\ unlinkCount' = unlinkCount + 1
              ELSE pc' = "delBlocks" /\ unlinkCount' = unlinkCount
        /\ pc = "relink" =>
              /\ Slide(slideBoth(newText, oldText))
              /\ maxWords' = GroupMaxWords(groups')
              /\ unlinkCount' = unlinkCount
              /\ pc' \in {"unlink", "delBlocks"}
        /\ pc \in {"detectBlocks", "unlink", "relink"}
              => LoopMeasure' >= 0 /\ LoopMeasure' < LoopMeasure

\* C18: detectBlocks enters its unlink loop only when unlinkBlocks is set and
\* maxWords >= blockMinLength; a cycle starts only while fewer than unlinkMax
\* cycles have unlinked something, so there are at most unlinkMax cycles; a
\* cycle that unlinked something is followed by slideGaps in both
\* directions, maxWords set anew and getSameBlocks, getSections, getGroups
\* and setFixed run again; the first cycle that unlinks nothing ends the
\* loop; and detectBlocks terminates: every step of the loop lowers
\* LoopMeasure, a natural number.
C18_UnlinkLoop ==
    /\ [][UnlinkCycle]_<<pc, unlinkCount>>
    /\ [](unlinkCount <= config.unlinkMax)

\* The loop has ended because unlinkMax cycles have unlinked something.
C18_Witness ==
    /\ pc = "delBlocks"
    /\ unlinkCount = config.unlinkMax

\* The loop has ended after two cycles that unlinked blocks and one that
\* unlinked nothing.
C18_WitnessTwice ==
    /\ pc = "delBlocks"
    /\ unlinkCount = 2
    /\ unlinkCount < config.unlinkMax

\* The old text tokens of a block: count tokens from j on.
RECURSIVE OldTokens(_, _, _)
OldTokens(toks, j, count) ==
    IF count = 0 THEN {} ELSE {j} \cup OldTokens(toks, At(toks, j).next, count - 1)

\* The blocks of group g, as indices of B from 1.
BlocksOf(g) == (g.blockStart + 1)..(g.blockEnd + 1)

\* The blocks that one pass of unlinkBlocks is to unlink: all blocks of a
\* group with maxWords < blockMinLength that is not unique; in another group
\* the leading and the trailing run of blocks that have at most one word and
\* are not unique.
ToUnlink(B, G, blockMinLength) ==
    LET Short(b) == B[b].words <= 1 /\ ~B[b].unique
    IN  {b \in 1..Len(B) :
           /\ B[b].type = "="
           /\ \E k \in 1..Len(G) :
                 /\ b \in BlocksOf(G[k])
                 /\ \/ G[k].maxWords < blockMinLength /\ ~G[k].unique
                    \/ \A c \in BlocksOf(G[k]) : c <= b => Short(c)
                    \/ \A c \in BlocksOf(G[k]) : c >= b => Short(c)}

\* U is the result of a pass on the texts N and O that has unlinked the
\* blocks E of B and no other: both links of every token of a block of E are
\* cleared, every other link is kept, and U.unlinked tells whether E has a
\* block.
UnlinkedOnly(N, O, B, E, U) ==
    /\ U.unlinked <=> E # {}
    /\ \A b \in 1..Len(B) :
          \A j \in OldTokens(O.tokens, B[b].oldStart, B[b].count) :
              /\ At(O.tokens, j).link # None
              /\ IF b \in E
                 THEN /\ At(U.oldText.tokens, j).link = None
                      /\ At(U.newText.tokens, At(O.tokens, j).link).link = None
                 ELSE /\ At(U.oldText.tokens, j).link = At(O.tokens, j).link
                      /\ At(U.newText.tokens, At(O.tokens, j).link).link = j
    /\ \A i \in 1..Len(N.tokens) :
          N.tokens[i].link = None => U.newText.tokens[i].link = None
    /\ \A j \in 1..Len(O.tokens) :
          O.tokens[j].link = None => U.oldText.tokens[j].link = None

\* C19: one pass of unlinkBlocks unlinks every '=' block of a group with
\* maxWords < blockMinLength that is not unique, clearing both links of every
\* token of the block; in any other group it unlinks exactly the leading and
\* the trailing run of '=' blocks that each have at most one word and are
\* not unique, so never a unique block; and it returns true iff it has
\* unlinked a block.
C19_UnlinkPass ==
    LET Pass(U) == UnlinkedOnly(newText, oldText, blocks,
                                ToUnlink(blocks, groups, config.blockMinLength), U)
    IN  pc = "unlink" =>
            Pass(unlinkBlocks(newText, oldText, blocks, groups, config.blockMinLength))

(***************************************************************************)
(* calculateDiff: termination and the bounds of its recursion.             *)
(***************************************************************************)
\* The position of a statement of calculateDiff, counted from its end.
PhaseRank(phase) ==
    CASE phase = "pass3" -> 8
      [] phase = "pass4" -> 7
      [] phase = "pass5" -> 6
      [] phase = "start" -> 5
      [] phase = "end" -> 4
      [] phase = "save" -> 3
      [] phase = "down" -> 2
      [] phase = "up" -> 1

\* No list of borders of the texts at hand is longer than this.
BorderCap == 2 * (Len(newText.tokens) + Len(oldText.tokens)) + 2

\* What is left of a call: the statements after the one it is at and, in the
\* recursion loops, the borders after the one it is at.
FrameRank(f) ==
    PhaseRank(f.phase) * (BorderCap + 1)
        + (IF f.phase \in {"down", "up"} THEN BorderCap - f.border ELSE 0)

\* The calls on the stack s have less left than those on the stack t: the
\* outermost call that differs has less left, or has returned.
LessLeft(s, t) ==
    \E k \in 1..Len(t) :
        /\ \A m \in 1..(k - 1) : m <= Len(s) /\ s[m] = t[m]
        /\ \/ Len(s) = k - 1
           \/ /\ Len(s) >= k
              /\ FrameRank(s[k]) < FrameRank(t[k])

\* The token lists after passes 1 to 3 of the call f on an empty symbol table.
FreshPass3(f) ==
    Pass3([n |-> newText.tokens, o |-> oldText.tokens, linked |-> FALSE,
           down |-> <<>>, up |-> <<>>],
          Pass2(oldText.tokens,
                Pass1(newText.tokens, EmptySymbols.token, f.newStart, f.up,
                      f.recursionLevel),
                f.oldStart, f.up, f.recursionLevel),
          1,
          [level |-> f.level, recursionLevel |-> f.recursionLevel,
           newWords |-> newText.words, oldWords |-> oldText.words,
           blockMinLength |-> config.blockMinLength])

\* The calls on the stack: the outermost is the call of diff(), each other one
\* is the repeat or a recursion of the call below it, within recursionMax.
Nested ==
    /\ \A k \in DOMAIN stack :
           /\ stack[k].recursionLevel >= 0
           /\ stack[k].recursionLevel <= config.recursionMax
           /\ stack[k].recursionLevel > 0
                  => stack[k].recurse /\ config.recursiveDiff
           /\ stack[k].repeating => config.repeatedDiff
           /\ stack[k].phase \in {"down", "up"}
                  => /\ stack[k].border <= BorderCap
                     /\ Len(BordersNext(stack[k], stack[k].phase = "up"))
                            <= BorderCap
    /\ stack # <<>> => stack[1].recursionLevel = 0 /\ ~stack[1].repeating
    /\ \A k \in 1..(Len(stack) - 1) :
           \/ /\ stack[k + 1].repeating
              /\ ~stack[k].repeating
              /\ stack[k + 1].recursionLevel = stack[k].recursionLevel
           \/ /\ ~stack[k + 1].repeating
              /\ stack[k + 1].recursionLevel = stack[k].recursionLevel + 1
    /\ Len(stack) <= 2 * (config.recursionMax + 1)

\* One step of a call of calculateDiff that is under way.
CalculateStep ==
    stack # <<>> =>
        /\ LessLeft(stack', stack)
        /\ Len(stack') <= Len(stack) + 1
        /\ Len(stack') = Len(stack) + 1 =>
               \E f \in {Top}, c \in {stack'[Len(stack')]} :
                   /\ c.phase = "pass3"
                   /\ c.level = f.level /\ c.recurse = f.recurse
                   /\ IF c.repeating
                      THEN /\ f.phase = "save" /\ stack'[Len(stack)].phase = "down"
                           /\ ~f.repeating /\ config.repeatedDiff
                           /\ c.recursionLevel = f.recursionLevel
                           /\ c.newStart = f.newStart /\ c.oldStart = f.oldStart
                           /\ c.up = f.up
                      ELSE /\ f.phase \in {"down", "up"}
                           /\ f.recurse /\ config.recursiveDiff
                           /\ f.recursionLevel < config.recursionMax
                           /\ c.recursionLevel = f.recursionLevel + 1
                           /\ c.up = (f.phase = "up")
                           /\ c.newStart # None /\ c.oldStart # None
                           /\ At(newText.tokens, c.newStart).link = None
                           /\ At(oldText.tokens, c.oldStart).link = None
        /\ Top.phase = "pass3" /\ ~Full(Top) =>
               /\ symbols' = symbols
               /\ newText'.tokens = FreshPass3(Top).n
               /\ oldText'.tokens = FreshPass3(Top).o

\* C20: every call of calculateDiff that diff() makes returns: each step of
\* it leaves less to do, in calls nested no deeper than recursionMax allows.
\* A call recurses only when recurse is requested and recursiveDiff is
\* enabled, into a gap whose first tokens are both unlinked, and the call it
\* makes works on a fresh symbol table; a call repeats at most once, and the
\* repeating call does not repeat.
C20_Recursion == [][CalculateStep]_stack /\ []Nested

\* A recursion at the deepest level recursionMax allows has linked tokens on
\* its own symbol table and goes through its own recursion loops.
C20_Witness ==
    /\ config.recursionMax = 1
    /\ stack # <<>>
    /\ Top.recursionLevel = 1
    /\ Top.phase \in {"down", "up"}

\* The repeat of a recursion is under way.
C20_WitnessRepeat ==
    /\ Len(stack) >= 3
    /\ Top.recursionLevel >= 1
    /\ Top.repeating
(***************************************************************************)
(* slideGaps: the stop of the slide up at a line break.                    *)
(***************************************************************************)
\* The first token that matches slideStop among those the scan of the slide
\* up goes through from front and back on, None when there is none.
RECURSIVE FirstLineBreak(_, _, _)
FirstLineBreak(toks, front, back) ==
    IF /\ front # None /\ back # None
       /\ At(toks, front).link # None
       /\ At(toks, front).token = At(toks, back).token
    THEN IF slideStop(At(toks, front).token) THEN front
         ELSE FirstLineBreak(toks, At(toks, front).prev, At(toks, back).prev)
    ELSE None

\* The slide up of the gap D, after its slide down, stops at the first line
\* break of its scan and takes the link of no token that ends a line.
StopsAtLineBreak(D) ==
    LET front == At(D.t, D.gapFront).prev
        Break == FirstLineBreak(D.t, front, D.gapBack)
        Stop == SlideStopAt(D.t, front, D.gapBack,
                            slideBorder(At(D.t, D.gapFront).token), front)
        R == SlideBack(D)
    IN  At(D.t, D.gapBack).link = None =>
            /\ Break # None => Stop = Break
            /\ \A k \in 0..(Len(D.t) - 1) :
                   /\ slideStop(At(D.t, k).token)
                   /\ At(D.t, k).link # None
                   /\ k # At(D.t, D.gapBack).next
                   => At(R.t, k).link # None

\* Every gap of slideGaps(text, textLinked), from token i on.
RECURSIVE LineBreaksStop(_, _, _)
LineBreaksStop(S, i, gapStart) ==
    IF i = None THEN TRUE
    ELSE IF gapStart = None /\ At(S.t, i).link = None
         THEN LineBreaksStop(S, At(S.t, i).next, i)
         ELSE IF gapStart # None /\ At(S.t, i).link # None
              THEN /\ StopsAtLineBreak(SlideDown(S, gapStart, At(S.t, i).prev, i))
                   /\ LineBreaksStop(SlideGap(S, gapStart, i), At(S.t, i).next, None)
              ELSE LineBreaksStop(S, At(S.t, i).next, gapStart)

\* C21: when diff() slides the gaps, the scan of every slide up stops at the
\* first matched token that ends with a line break: that token is the stop
\* point and no gap slides up past it.
C21_SlideStop ==
    pc \in {"wordSlide", "characterSlide"} /\ stack = <<>> =>
        /\ LineBreaksStop([t |-> newText.tokens, l |-> oldText.tokens],
                          newText.first, None)
        /\ \E a \in {slideGaps(newText, oldText)} :
               LineBreaksStop([t |-> a.textLinked.tokens, l |-> a.text.tokens],
                              a.textLinked.first, None)
(***************************************************************************)
(* slideGaps: the slide down.                                              *)
(***************************************************************************)
\* The condition of the slide down holds of the gap D: its first token is
\* unmatched and equal to the matched token right after the gap.
CanSlideDown(D) ==
    \E front \in {D.gapFront}, back \in {At(D.t, D.gapBack).next} :
        /\ front # None /\ back # None
        /\ At(D.t, front).link = None
        /\ At(D.t, back).link # None
        /\ At(D.t, front).token = At(D.t, back).token

\* The slide down of every gap of slideGaps(text, textLinked), from token i
\* on, went as deep as possible.
RECURSIVE SlidDownFully(_, _, _)
SlidDownFully(S, i, gapStart) ==
    IF i = None THEN TRUE
    ELSE IF gapStart = None /\ At(S.t, i).link = None
         THEN SlidDownFully(S, At(S.t, i).next, i)
         ELSE IF gapStart # None /\ At(S.t, i).link # None
              THEN /\ ~CanSlideDown(SlideDown(S, gapStart, At(S.t, i).prev, i))
                   /\ SlidDownFully(SlideGap(S, gapStart, i), At(S.t, i).next, None)
              ELSE SlidDownFully(S, At(S.t, i).next, gapStart)

\* C22: when diff() slides the gaps, the slide down of every gap is repeated
\* as long as its condition holds: after it the first gap token differs from
\* the token right after the gap, or that token is unmatched or absent.
C22_SlideDown ==
    pc \in {"wordSlide", "characterSlide"} /\ stack = <<>> =>
        /\ SlidDownFully([t |-> newText.tokens, l |-> oldText.tokens],
                         newText.first, None)
        /\ \E a \in {slideGaps(newText, oldText)} :
               SlidDownFully([t |-> a.textLinked.tokens, l |-> a.text.tokens],
                             a.textLinked.first, None)
(***************************************************************************)
(* splitRefineChars: the selection of the gaps.                            *)
(***************************************************************************)
\* The place of token i in the list of tokens.
PlaceOf(list, i) == CHOOSE p \in 1..Len(list) : list[p] = i

\* The strings of the unmatched run of the list of T that starts at token
\* first, none when there is no such token.
GapStrings(T, first) ==
    IF first = None THEN <<>>
    ELSE LET list == ListOf(T)
             p == PlaceOf(list, first)
             Open(q) == \A m \in p..q : At(T.tokens, list[m]).link = None
             n == Cardinality({q \in p..Len(list) : Open(q)})
         IN  [m \in 1..n |-> At(T.tokens, list[p + m - 1]).token]

\* The length of the longest common prefix, and of the longest common suffix,
\* of the strings a and b.
CommonPrefix(a, b) ==
    Cardinality({L \in 1..Min(Len(a), Len(b)) : SubSeq(a, 1, L) = SubSeq(b, 1, L)})

CommonSuffix(a, b) ==
    Cardinality({R \in 1..Min(Len(a), Len(b)) :
                    SubSeq(a, Len(a) - R + 1, Len(a)) = SubSeq(b, Len(b) - R + 1, Len(b))})

\* The aligned pair of strings a, b rejects its gap.
RejectsGap(a, b) ==
    LET shorter == IF Len(a) < Len(b) THEN a ELSE b
        longer == IF Len(a) < Len(b) THEN b ELSE a
        L == CommonPrefix(a, b)
        R == CommonSuffix(a, b)
    IN  \/ /\ Len(a) # Len(b)
           /\ L + R # Len(shorter)
           /\ ~IsSubstring(shorter, longer)
           /\ 2 * L < Len(shorter) /\ 2 * R < Len(shorter)
        \/ /\ Len(a) = Len(b)
           /\ a # b
           /\ 100 * Cardinality({p \in 1..Len(a) : a[p] = b[p]}) < 49 * Len(a)

\* The gap with the strings xs in one version and ys in the other is selected
\* for the split into characters.
SelectsGap(xs, ys) ==
    IF Len(xs) # Len(ys)
    THEN \/ Len(xs) = 1 /\ Len(ys) = 3 /\ IsPrefix(ys[1], xs[1]) /\ IsSuffix(ys[3], xs[1])
         \/ Len(ys) = 1 /\ Len(xs) = 3 /\ IsPrefix(xs[1], ys[1]) /\ IsSuffix(xs[3], ys[1])
    ELSE \A k \in 1..Len(xs) : ~RejectsGap(xs[k], ys[k])

\* The tokens of the unmatched run of the list of T that starts at first.
GapTokens(T, first) ==
    IF first = None THEN {}
    ELSE LET list == ListOf(T)
             p == PlaceOf(list, first)
         IN  {list[q] : q \in {q \in p..Len(list) :
                                  \A m \in p..q : At(T.tokens, list[m]).link = None}}

\* Token k of T is as it was in R: in the list, with its string and link.
Untouched(T, R, k) ==
    /\ At(R.tokens, k).token = At(T.tokens, k).token
    /\ At(R.tokens, k).link = At(T.tokens, k).link
    /\ (\E p \in 1..Len(ListOf(T)) : ListOf(T)[p] = k)
           => (\E p \in 1..Len(ListOf(R)) : ListOf(R)[p] = k)

\* The gaps G of the texts N, O are selected by the rule, and R, the texts
\* after splitRefineChars, differs from N, O in the selected gaps only.
GapsSelected(N, O, G, R) ==
    /\ \A g \in DOMAIN G :
           G[g].charSplit = SelectsGap(GapStrings(N, G[g].newFirst),
                                       GapStrings(O, G[g].oldFirst))
    /\ \A k \in 0..(Len(N.tokens) - 1) :
           \/ Untouched(N, R.newText, k)
           \/ \E g \in DOMAIN G :
                  G[g].charSplit /\ k \in GapTokens(N, G[g].newFirst)
    /\ \A k \in 0..(Len(O.tokens) - 1) :
           \/ Untouched(O, R.oldText, k)
           \/ \E g \in DOMAIN G :
                  G[g].charSplit /\ k \in GapTokens(O, G[g].oldFirst)

(***************************************************************************)
\* Fragment j of G is a '=' fragment of colour 0.
SameAt(G, j) == j <= Len(G) /\ G[j].type = "=" /\ G[j].color = 0

\* Fragment j of G is an empty fragment of colour 0 with a type of types.
EmptyAt(G, j, types) ==
    j <= Len(G) /\ G[j].type \in types /\ G[j].color = 0 /\ G[j].text = <<>>

\* The number of fragments of the kept left part of text from fragment j of
\* G on, a prefix of text and an omission marker if any; 0 when there is no
\* left part.
LeftPart(G, j, text) ==
    IF SameAt(G, j) /\ IsPrefix(G[j].text, text)
    THEN (IF EmptyAt(G, j + 1, {"~", " ~"}) THEN 2 ELSE 1)
    ELSE 0

\* The number of fragments of the kept right part of text from fragment j of
\* G on, an omission marker if any and a suffix of text; 0 when there is no
\* right part.
RightPart(G, j, text) ==
    IF EmptyAt(G, j, {"~", "~ "})
    THEN (IF SameAt(G, j + 1) /\ IsSuffix(G[j + 1].text, text) THEN 2 ELSE 0)
    ELSE IF SameAt(G, j) /\ IsSuffix(G[j].text, text) THEN 1 ELSE 0

\* The separator of two containers of fragments from fragment j of G on.
SeparatorAt(G, j) ==
    EmptyAt(G, j, {"]"}) /\ EmptyAt(G, j + 1, {","}) /\ EmptyAt(G, j + 2, {"["})

\* The number of fragments from fragment j of G on that stand for fragment i
\* of F after its clipping, 0 when they do not: the right part alone for the
\* first, the left part alone for the last fragment between the containers,
\* the left part, the separator and the right part for any other.
ClippedAt(F, G, i, j) ==
    IF i = 3 /\ i = Len(F) - 2 THEN 0
    ELSE IF i = 3 THEN RightPart(G, j, F[i].text)
    ELSE IF i = Len(F) - 2 THEN LeftPart(G, j, F[i].text)
    ELSE IF /\ LeftPart(G, j, F[i].text) > 0
            /\ SeparatorAt(G, j + LeftPart(G, j, F[i].text))
            /\ RightPart(G, j + LeftPart(G, j, F[i].text) + 3, F[i].text) > 0
    THEN LeftPart(G, j, F[i].text) + 3
             + RightPart(G, j + LeftPart(G, j, F[i].text) + 3, F[i].text)
    ELSE 0

\* The stream G from fragment j on is the stream F from fragment i on with
\* some of its '=' fragments of colour 0 clipped and nothing else changed.
RECURSIVE ClipOf(_, _, _, _)
ClipOf(F, G, i, j) ==
    IF i > Len(F) THEN j > Len(G)
    ELSE \/ j <= Len(G) /\ G[j] = F[i] /\ ClipOf(F, G, i + 1, j + 1)
         \/ /\ F[i].type = "=" /\ F[i].color = 0
            /\ ClippedAt(F, G, i, j) > 0
            /\ ClipOf(F, G, i + 1, j + ClippedAt(F, G, i, j))

\* The step of diff() that clips the stream and returns it.
Clipping ==
    pc = "clip" /\ raised' = "" =>
        /\ config.fullDiff \/ fragments = NoChange => fragments' = fragments
        /\ ClipOf(fragments, fragments', 1, 1)

\* C24: clipping runs only when fullDiff is false and leaves the stream of
\* no change as it is.  It changes '=' fragments of colour 0 only: all other
\* fragments stay, in their order, and a clipped fragment becomes a prefix of
\* its text, a suffix of it, or both with the separator ']', ',', '[' between
\* them, each with its omission marker if any; the first fragment is not
\* clipped on the left, the last not on the right.
C24_Clipping == [][Clipping]_pc

\* diff() has returned a stream with a fragment clipped on both sides, one
\* clipped on the left only or one clipped on the right only.
C24_Witness ==
    /\ Returned /\ ~config.fullDiff
    /\ HasType(fragments, ",")

C24_WitnessRight ==
    /\ Returned /\ ~config.fullDiff
    /\ fragments[3].type = "~"

C24_WitnessLeft ==
    /\ Returned /\ ~config.fullDiff
    /\ ~HasType(fragments, ",")
    /\ fragments[Len(fragments) - 2].type = "="
    /\ fragments[Len(fragments) - 2].text = <<" ", "a">>
(***************************************************************************)
(* splitText, splitRefine: the text of the token list.                     *)
(***************************************************************************)
\* The strings of the tokens of the list of T, first to last.
StringsOf(T) == [k \in 1..Len(ListOf(T)) |-> At(T.tokens, ListOf(T)[k]).token]

\* The initial splitText of either text is done.
Split0 == pc \notin {"diff", "paragraph", "unitTests", "clip", "done"}

\* The list of T has the text of T.
Whole(T) == Concat(StringsOf(T)) = T.text

\* The arena of T, later U: tokens were added at its end only.
Appended(T, U) ==
    /\ Len(U.tokens) >= Len(T.tokens)
    /\ \A k \in 1..Len(T.tokens) : U.tokens[k].token = T.tokens[k].token

\* What splitRefine(level) makes of the list of T: the pieces of every token
\* without a link, every token with a link as it is.
Pieces(T, level) ==
    Concat([k \in 1..Len(ListOf(T)) |->
               IF At(T.tokens, ListOf(T)[k]).link = None
               THEN Split(level, At(T.tokens, ListOf(T)[k]).token)
               ELSE <<At(T.tokens, ListOf(T)[k]).token>>])

\* U is T after splitRefine(level): every token without a link was split
\* once, into new tokens, and every token with a link is in its place.
RefinedOnce(T, U, level) ==
    /\ StringsOf(U) = Pieces(T, level)
    /\ Len(U.tokens) - Len(T.tokens)
         = Len(Concat([k \in 1..Len(ListOf(T)) |->
                          IF At(T.tokens, ListOf(T)[k]).link = None
                          THEN Split(level, At(T.tokens, ListOf(T)[k]).token)
                          ELSE <<>>]))
    /\ \A k \in 1..Len(ListOf(T)) :
           IF At(T.tokens, ListOf(T)[k]).link = None
           THEN \A m \in 1..Len(ListOf(U)) : ListOf(U)[m] # ListOf(T)[k]
           ELSE /\ \E m \in 1..Len(ListOf(U)) : ListOf(U)[m] = ListOf(T)[k]
                /\ At(U.tokens, ListOf(T)[k]).link = At(T.tokens, ListOf(T)[k]).link

\* One step of diff() on the token lists, before it frees them.
SplitStep ==
    /\ Split0 /\ Split0' =>
           Appended(newText, newText') /\ Appended(oldText, oldText')
    /\ pc \in {"line", "sentence", "chunk", "word"} /\ stack = <<>> =>
           RefinedOnce(newText, newText', pc) /\ RefinedOnce(oldText, oldText', pc)

\* C25: once the texts are split, the strings of the tokens of either list,
\* first to last, make up the text of the version, whatever was split since;
\* tokens are only added at the end of the arena and keep their strings, and
\* splitRefine splits every list token without a link exactly once and leaves
\* every token with a link in its place.
C25_TextKept ==
    /\ [](Split0 => Whole(newText) /\ Whole(oldText))
    /\ [][SplitStep]_<<pc, stack>>

\* After the split into characters the list of the new text holds tokens
\* with a link that no refinement touched next to the characters of a split
\* word.
C25_Witness ==
    /\ pc = "characterSlide" /\ stack = <<>>
    /\ Len(newText.tokens) > Len(ListOf(newText))
    /\ \E k \in 1..Len(ListOf(newText)) :
           /\ At(newText.tokens, ListOf(newText)[k]).link # None
           /\ ListOf(newText)[k] < Len(newText.text)
    /\ ListOf(newText)[Len(ListOf(newText))] = Len(newText.tokens) - 1

(***************************************************************************)
(* The text of linked tokens.                                              *)
(***************************************************************************)
\* Every linked token of N has a partner in O with the same text.
SameText(N, O) ==
    \A i \in 1..Len(N.tokens) :
        N.tokens[i].link # None
            => /\ N.tokens[i].link + 1 \in 1..Len(O.tokens)
               /\ O.tokens[N.tokens[i].link + 1].token = N.tokens[i].token

\* Linked tokens of both texts carry the text of their partner.
IdenticalLinks(N, O) == SameText(N, O) /\ SameText(O, N)

\* The tokens of the arena after that are linked and were not in before.
NewlyLinked(before, after) ==
    {i \in 1..Len(after) :
        /\ after[i].link # None
        /\ i <= Len(before) => before[i].link = None}

\* A step of passes 1 to 3 of calculateDiff links tokens that have a
\* character other than a blank or a newline.
UniqueLinkStep ==
    stack # <<>> /\ Top.phase = "pass3" =>
        /\ \A i \in NewlyLinked(newText.tokens, newText'.tokens) :
              blankOnlyToken(newText'.tokens[i].token)
        /\ \A j \in NewlyLinked(oldText.tokens, oldText'.tokens) :
              blankOnlyToken(oldText'.tokens[j].token)

\* C26: while the token lists exist, a linked token and its partner carry the
\* same text, after every step of calculateDiff (the unique-link pass, the
\* expansions downwards, upwards, from the text start and from the text end),
\* after each direction of slideGaps and after the in-place linking of
\* splitRefineChars; and the unique-link pass links no token made of blanks
\* and newlines only.
C26_LinkedText ==
    /\ [](Tokenized =>
            /\ IdenticalLinks(newText, oldText)
            /\ pc \in {"wordSlide", "characterSlide", "relink"} /\ stack = <<>>
                  => /\ IdenticalLinks(slideGaps(newText, oldText).text,
                                       slideGaps(newText, oldText).textLinked)
                     /\ IdenticalLinks(slideBoth(newText, oldText).newText,
                                       slideBoth(newText, oldText).oldText)
            /\ pc = "character"
                  => IdenticalLinks(splitRefineChars(newText, oldText).newText,
                                    splitRefineChars(newText, oldText).oldText))
    /\ [][UniqueLinkStep]_stack

\* calculateDiff ran on every level and the gaps were slid: a token of blanks
\* only is linked, by an expansion, and so is a token with another character.
C26_Witness ==
    /\ pc = "enumerate"
    /\ \E i \in 1..Len(newText.tokens) :
          /\ newText.tokens[i].link # None
          /\ ~blankOnlyToken(newText.tokens[i].token)
    /\ \E i \in 1..Len(newText.tokens) :
          /\ newText.tokens[i].link # None
          /\ blankOnlyToken(newText.tokens[i].token)

(***************************************************************************)
(* Links and the linked lists.                                             *)
(***************************************************************************)
\* Token i of the arena of T is in the linked list of T.
InList(T, i) == \E k \in 1..Len(ListOf(T)) : ListOf(T)[k] = i

\* Every link of N goes from a token in the list of N to a token in the list
\* of O.
ListLinks(N, O) ==
    \A i \in 1..Len(N.tokens) :
        N.tokens[i].link # None
            => InList(N, i - 1) /\ InList(O, N.tokens[i].link)

\* The links of both texts connect tokens of the linked lists only.
LinkedInLists(N, O) == ListLinks(N, O) /\ ListLinks(O, N)

\* diff() has enumerated the tokens and not yet freed the lists.
Enumerated ==
    pc \in {"detectBlocks", "unlink", "relink", "delBlocks", "insBlocks",
            "insertMarks", "fragments"}

\* Every linked token of N and its partner in O have a number.
LinkedNumbered(N, O) ==
    \A i \in 1..Len(N.tokens) :
        N.tokens[i].link # None
            => /\ N.tokens[i].number # None
               /\ At(O.tokens, N.tokens[i].link).number # None

\* Every '=' block of bl has a newNumber and an oldNumber.
SameBlocksNumbered(bl) ==
    \A b \in 1..Len(bl) :
        bl[b].type = "=" => bl[b].newNumber # None /\ bl[b].oldNumber # None

(***************************************************************************)
\* The block indices of the range of group g.
RangeOf(g) == {b \in 0..(Len(blocks) - 1) : g.blockStart <= b /\ b <= g.blockEnd}

\* The ranges of the groups are pairwise disjoint, together cover every
\* index of the block list, and every block in the range of a group carries
\* the index of that group.
RangesPartition ==
    /\ \A g, h \in 1..Len(groups) :
          g # h => RangeOf(groups[g]) \cap RangeOf(groups[h]) = {}
    /\ \A b \in 0..(Len(blocks) - 1) :
          \E g \in 1..Len(groups) : b \in RangeOf(groups[g])
    /\ \A g \in 1..Len(groups) :
          \A b \in RangeOf(groups[g]) : At(blocks, b).group = g - 1

\* The number of blocks of the types in types that hold token number of
\* the old (new) text.
BlocksOfOld(number, types) ==
    Cardinality({b \in 1..Len(blocks) :
        /\ blocks[b].type \in types
        /\ blocks[b].oldNumber # None
        /\ blocks[b].oldNumber <= number
        /\ number < blocks[b].oldNumber + blocks[b].count})

BlocksOfNew(number, types) ==
    Cardinality({b \in 1..Len(blocks) :
        /\ blocks[b].type \in types
        /\ blocks[b].newNumber # None
        /\ blocks[b].newNumber <= number
        /\ number < blocks[b].newNumber + blocks[b].count})

\* C28: after the final sortBlocks of insertMarks the ranges [blockStart,
\* blockEnd] of the groups are pairwise disjoint, cover every index of the
\* block list, and every block in a range carries the index of its group, so
\* that getDiffFragments, which walks the ranges, emits every block once.
C28_EmittedOnce == pc = "fragments" => RangesPartition

\* What holds of the block list: every token of the old text lies in exactly
\* one '=' or '-' block and every token of the new text in exactly one '='
\* or '+' block.
C28_TokensOnce ==
    pc = "fragments" =>
        /\ \A number \in 0..(Len(ListOf(oldText)) - 1) :
              BlocksOfOld(number, {"=", "-"}) = 1
        /\ \A number \in 0..(Len(ListOf(newText)) - 1) :
              BlocksOfNew(number, {"=", "+"}) = 1

(***************************************************************************)
(* The completion of clipDiffFragments.                                    *)
(***************************************************************************)
\* C29: clipDiffFragments completes without an index error for every stream
\* of getDiffFragments, also when the text of a '=' fragment that is long
\* enough to be considered holds no line terminator: no call of diff() ends
\* with an IndexError.
C29_ClipCompletes == raised # "IndexError"

(***************************************************************************)
(* diff() as a function of its arguments and the configuration.            *)
(***************************************************************************)
\* The fields of the object that a call of diff() reads are as the
\* constructor left them.
AsConstructed ==
    /\ stack = <<>>
    /\ symbols = EmptySymbols
    /\ bordersDown = <<>>
    /\ bordersUp = <<>>
    /\ blocks = <<>>
    /\ groups = <<>>
    /\ sections = <<>>
    /\ maxWords = 0
    /\ error = FALSE

\* The stream that diff("ab c", "a-b c") returns on a constructed object with
\* the default configuration.
FreshOneToThree ==
    << <<"=", <<"a">> >>, <<"+", <<"-">> >>, <<"=", <<"b", " ", "c">> >> >>

\* C30: the result of diff() depends on the two strings and the
\* configuration only.  A call on an object that has completed other calls
\* starts with maxWords, the symbol table, the border lists, the blocks,
\* groups and sections and the error flag as a constructed object has them,
\* and returns the stream a constructed object returns: for old = "ab c" and
\* new = "a-b c" with the default configuration, ="a", +"-", ="b c".
C30_Pure ==
    /\ pc = "paragraph" => AsConstructed
    /\ Diffing(<<"a", "b", " ", "c">>, <<"a", "-", "b", " ", "c">>) /\ Returned
          => Content(fragments) = FreshOneToThree
====
